---- MODULE Spec2Model ----
(***************************************************************************)
(* Tilemap engine (scripts/Tilemap.py), editor grid operations (Editor.py) *)
(* and the physics/collision resolver (scripts/Entities.py) of the         *)
(* platformer, as a state machine.                                         *)
(*                                                                         *)
(* Python floats are IEEE-754 binary64.  Every float the modelled code     *)
(* computes is a multiple of 2^-56 (the unit in the last place of the      *)
(* literal 0.1), so a float is held exactly as sign and magnitude          *)
(*     i + h / 2^28 + l / 2^56        (0 <= h, l < 2^28)                   *)
(* and every addition is rounded to 53 significant bits, ties to even.     *)
(***************************************************************************)
EXTENDS Integers, Sequences, FiniteSets, TLC

\* ------------------------------------------------------------------------
\* binary64 arithmetic
\* ------------------------------------------------------------------------

RECURSIVE Pow2(_)
Pow2(k) == IF k <= 0 THEN 1 ELSE 2 * Pow2(k - 1)

RECURSIVE BitLen(_)
BitLen(n) == IF n <= 0 THEN 0 ELSE 1 + BitLen(n \div 2)

Limb == Pow2(28)

Mag(i, h, l) == [i |-> i, h |-> h, l |-> l]

MagZero(m) == m.i = 0 /\ m.h = 0 /\ m.l = 0

MagLess(a, b) ==
    \/ a.i < b.i
    \/ a.i = b.i /\ a.h < b.h
    \/ a.i = b.i /\ a.h = b.h /\ a.l < b.l

MagAdd(a, b) ==
    LET l  == a.l + b.l
        cl == l \div Limb
        h  == a.h + b.h + cl
        ch == h \div Limb
    IN  Mag(a.i + b.i + ch, h % Limb, l % Limb)

\* a - b for a >= b
MagSub(a, b) ==
    LET bl == IF a.l < b.l THEN 1 ELSE 0
        l  == a.l + bl * Limb - b.l
        bh == IF a.h < b.h + bl THEN 1 ELSE 0
        h  == a.h + bh * Limb - b.h - bl
    IN  Mag(a.i - b.i - bh, h, l)

\* number of significant bits of a magnitude, counted from the 2^-56 bit
MagBits(m) ==
    IF m.i > 0 THEN 56 + BitLen(m.i)
    ELSE IF m.h > 0 THEN 28 + BitLen(m.h)
    ELSE BitLen(m.l)

\* round to nearest, ties to even, keeping 53 significant bits
MagRound(m) ==
    LET d == MagBits(m) - 53
    IN  IF d <= 0 THEN m
        ELSE LET unit == Pow2(d)
                 low  == m.l % unit
                 half == unit \div 2
                 odd  == IF d < 28 THEN (m.l \div unit) % 2 = 1 ELSE m.h % 2 = 1
                 down == Mag(m.i, m.h, m.l - low)
             IN  IF low > half \/ (low = half /\ odd)
                 THEN MagAdd(down, Mag(0, unit \div Limb, unit % Limb))
                 ELSE down

Flt(neg, m) == [neg |-> neg /\ ~MagZero(m), m |-> m]

FInt(n) == IF n < 0 THEN Flt(TRUE, Mag(-n, 0, 0)) ELSE Flt(FALSE, Mag(n, 0, 0))

FZero == FInt(0)

FNeg(a) == Flt(~a.neg, a.m)

FAdd(a, b) ==
    IF a.neg = b.neg THEN Flt(a.neg, MagRound(MagAdd(a.m, b.m)))
    ELSE IF MagLess(a.m, b.m) THEN Flt(b.neg, MagRound(MagSub(b.m, a.m)))
    ELSE Flt(a.neg, MagRound(MagSub(a.m, b.m)))

FSub(a, b) == FAdd(a, FNeg(b))

FLess(a, b) ==
    IF a.neg /\ ~b.neg THEN TRUE
    ELSE IF ~a.neg /\ b.neg THEN FALSE
    ELSE IF a.neg THEN MagLess(b.m, a.m)
    ELSE MagLess(a.m, b.m)

FLeq(a, b) == ~FLess(b, a)

\* Python min(a, b) and max(a, b): the first argument unless the second is
\* strictly smaller (larger)
FMin(a, b) == IF FLess(b, a) THEN b ELSE a

FMax(a, b) == IF FLess(a, b) THEN b ELSE a

FIsInt(a) == a.m.h = 0 /\ a.m.l = 0

\* conversion to a C int, as pygame.Rect converts a float coordinate:
\* the fraction is dropped (rounding toward zero)
FTrunc(a) == IF a.neg THEN -a.m.i ELSE a.m.i

\* math.floor
FFloor(a) == IF a.neg /\ ~FIsInt(a) THEN -a.m.i - 1 ELSE FTrunc(a)

\* the float literals of the source
F0_1 == Flt(FALSE, Mag(0, 26843545, 161061274))

F0_5 == Flt(FALSE, Mag(0, 134217728, 0))

F4_5 == Flt(FALSE, Mag(4, 134217728, 0))

\* ------------------------------------------------------------------------
\* Python values held by tile records
\* ------------------------------------------------------------------------

\* a Python number: an int or a float (json keeps the two apart)
PyInt(n) == [int |-> TRUE, f |-> FInt(n)]

PyFloat(f) == [int |-> FALSE, f |-> f]

\* a variant of the tile record whose pos holds y before x
TileTransposed(type, variant, px, py, seq) ==
    [type |-> type, variant |-> variant, pos |-> <<py, px>>, seq |-> seq]

\* a tile record {'type', 'variant', 'pos'}; seq tells whether 'pos' is a
\* tuple (as the editor builds it) or a list (as json.load builds it)
Tile(type, variant, px, py, seq) ==
    [type |-> type, variant |-> variant, pos |-> <<px, py>>, seq |-> seq]

\* str(x) + ';' + str(y)
Key(x, y) == ToString(x) \o ";" \o ToString(y)

\* a dict is the sequence of its items in insertion order
DictKeys(d) == {d[k].key : k \in DOMAIN d}

DictHas(d, key) == \E k \in DOMAIN d : d[k].key = key

DictGet(d, key) == d[CHOOSE k \in DOMAIN d : d[k].key = key].val

DictPut(d, key, val) ==
    IF DictHas(d, key)
    THEN [k \in DOMAIN d |-> IF d[k].key = key THEN [key |-> key, val |-> val] ELSE d[k]]
    ELSE Append(d, [key |-> key, val |-> val])

DictDel(d, key) == SelectSeq(d, LAMBDA e : e.key # key)

\* list.remove(v): the first element equal to v goes
ListRemove(list, v) ==
    IF \E k \in DOMAIN list : list[k] = v
    THEN LET at == CHOOSE k \in DOMAIN list :
                       list[k] = v /\ \A j \in 1..(k - 1) : list[j] # v
         IN  [k \in 1..(Len(list) - 1) |-> IF k < at THEN list[k] ELSE list[k + 1]]
    ELSE list

\* ------------------------------------------------------------------------
\* scripts/Tilemap.py
\* ------------------------------------------------------------------------

NEIGHBOR_OFFSET ==
    << <<-1, 0>>, <<-1, -1>>, <<0, -1>>, <<1, -1>>,
       <<1, 0>>, <<0, 0>>, <<-1, 1>>, <<0, 1>>, <<1, 1>> >>

PHYSICS_TILES == {"grass", "stone"}

DefaultTileSize == 16

NoError == "none"

\* the grid coordinate of a tile record's pos
TileX(tile) == FTrunc(tile.pos[1].f)

TileY(tile) == FTrunc(tile.pos[2].f)

\* a variant of the cell index that rounds toward zero
CellOfTruncated(p, ts) == FTrunc(p) \div ts + (IF FTrunc(p) < 0 /\ FTrunc(p) % ts # 0 THEN 1 ELSE 0)

\* int(p // tile_size) for a float p: floor division
CellOf(p, ts) == FFloor(p) \div ts

\* the element of a set of one element; it names a value that later
\* definitions read several times
Only(S) == CHOOSE x \in S : TRUE

\* tile.copy(): a new dict holding the same 'pos' object
CopyShared(tile) ==
    [type |-> tile.type, variant |-> tile.variant, pos |-> tile.pos,
     seq |-> tile.seq, shared |-> TRUE]

\* a variant of the copy of a grid tile that keeps the grid coordinate
CopyUnscaled(tile, ts) ==
    [type |-> tile.type, variant |-> tile.variant,
     pos |-> <<PyInt(TileX(tile)), PyInt(TileY(tile))>>,
     seq |-> "list", shared |-> FALSE]

\* tile.copy() followed by pos = pos.copy(); pos[0] *= ts; pos[1] *= ts
CopyScaled(tile, ts) ==
    [type |-> tile.type, variant |-> tile.variant,
     pos |-> <<PyInt(TileX(tile) * ts), PyInt(TileY(tile) * ts)>>,
     seq |-> "list", shared |-> FALSE]

\* a variant of the second loop of Extract that takes what it copies out of
\* the grid even when keep is set
ExtractGridAlways(items, k, id_pairs, keep, ts, st) ==
    [st EXCEPT
        !.matches = @ \o [j \in DOMAIN SelectSeq(items,
                                   LAMBDA e : <<e.val.type, e.val.variant>> \in id_pairs)
                            |-> CopyScaled(SelectSeq(items,
                                    LAMBDA e : <<e.val.type, e.val.variant>> \in id_pairs)[j].val,
                                    ts)],
        !.tilemap = SelectSeq(items, LAMBDA e : <<e.val.type, e.val.variant>> \notin id_pairs)]

\* Extract, first loop: over a copy of the decoration list
RECURSIVE ExtractOffgrid(_, _, _, _, _)
ExtractOffgrid(copy, k, id_pairs, keep, st) ==
    IF k > Len(copy) THEN st
    ELSE LET tile == copy[k]
         IN  IF <<tile.type, tile.variant>> \in id_pairs
             THEN Only({ExtractOffgrid(copy, k + 1, id_pairs, keep, next) : next \in
                      {[st EXCEPT !.matches = Append(@, CopyShared(tile)),
                                  !.offgrid = IF keep THEN @ ELSE ListRemove(@, tile)]}})
             ELSE ExtractOffgrid(copy, k + 1, id_pairs, keep, st)

\* Extract, second loop: over the live dict.  The dict iterator raises
\* RuntimeError on its next step once the dict has changed size; tuple has
\* no copy(), so a matched record whose pos is a tuple raises AttributeError.
RECURSIVE ExtractGrid(_, _, _, _, _, _)
ExtractGrid(items, k, id_pairs, keep, ts, st) ==
    IF Len(st.tilemap) # Len(items) THEN [st EXCEPT !.err = "RuntimeError"]
    ELSE IF k > Len(items) THEN st
    ELSE LET tile == items[k].val
         IN  IF <<tile.type, tile.variant>> \in id_pairs
             THEN IF tile.seq = "tuple" THEN [st EXCEPT !.err = "AttributeError"]
                  ELSE Only({ExtractGrid(items, k + 1, id_pairs, keep, ts, next) : next \in
                           {[st EXCEPT !.matches = Append(@, CopyScaled(tile, ts)),
                                       !.tilemap = IF keep THEN @
                                                   ELSE DictDel(@, items[k].key)]}})
             ELSE ExtractGrid(items, k + 1, id_pairs, keep, ts, st)

\* Tilemap.Extract: the tilemap it leaves, the list it returns and the
\* exception it raises (NoError when it returns)
Extract(tm, ts, off, id_pairs, keep) ==
    Only({ExtractGrid(tm, 1, id_pairs, keep, ts, st1) : st1 \in
             {ExtractOffgrid(off, 1, id_pairs, keep,
                  [tilemap |-> tm, offgrid |-> off, matches |-> <<>>, err |-> NoError])}})

\* Tilemap.Tiles_Around
Tiles_Around(tm, ts, p) ==
    LET cx   == CellOf(p[1], ts)
        cy   == CellOf(p[2], ts)
        locs == [k \in DOMAIN NEIGHBOR_OFFSET |->
                    Key(cx + NEIGHBOR_OFFSET[k][1], cy + NEIGHBOR_OFFSET[k][2])]
        here == SelectSeq(locs, LAMBDA loc : DictHas(tm, loc))
    IN  [k \in DOMAIN here |-> DictGet(tm, here[k])]

\* pygame.Rect(x, y, w, h)
Rect(x, y, w, h) == [x |-> x, y |-> y, w |-> w, h |-> h]

\* a variant of Physics_Rects_Around without the test of the type
Physics_Rects_AroundAny(tm, ts, p) ==
    [k \in DOMAIN Tiles_Around(tm, ts, p) |->
        Rect(TileX(Tiles_Around(tm, ts, p)[k]) * ts, TileY(Tiles_Around(tm, ts, p)[k]) * ts,
             ts, ts)]

\* Tilemap.Physics_Rects_Around
Physics_Rects_Around(tm, ts, p) ==
    LET solid == SelectSeq(Tiles_Around(tm, ts, p), LAMBDA t : t.type \in PHYSICS_TILES)
    IN  [k \in DOMAIN solid |-> Rect(TileX(solid[k]) * ts, TileY(solid[k]) * ts, ts, ts)]

\* a variant of Solid_Check without the test of the type
Solid_CheckAny(tm, ts, p) ==
    IF DictHas(tm, Key(CellOf(p[1], ts), CellOf(p[2], ts)))
    THEN <<DictGet(tm, Key(CellOf(p[1], ts), CellOf(p[2], ts)))>>
    ELSE << >>

\* Tilemap.Solid_Check: <<tile>>, or << >> for None
Solid_Check(tm, ts, p) ==
    LET loc == Key(CellOf(p[1], ts), CellOf(p[2], ts))
    IN  IF DictHas(tm, loc) /\ DictGet(tm, loc).type \in PHYSICS_TILES
        THEN <<DictGet(tm, loc)>>
        ELSE << >>

\* the shifts AutoTile looks at, in the order of its loop
SHIFTS == <<<<1, 0>>, <<-1, 0>>, <<0, -1>>, <<0, 1>>>>

\* Python's order on tuples of two ints
ShiftLess(a, b) == a[1] < b[1] \/ (a[1] = b[1] /\ a[2] < b[2])

\* tuple(sorted(s)) for a set s of shifts
SortedTuple(s) ==
    [k \in 1..Cardinality(s) |->
        CHOOSE a \in s : Cardinality({b \in s : ShiftLess(b, a)}) = k - 1]

\* a variant of the table whose entry for right + down is 1
AUTOTILE_MAP_Shifted ==
    {<<SortedTuple({<<1, 0>>, <<0, 1>>}), 1>>,
     <<SortedTuple({<<1, 0>>, <<0, 1>>, <<-1, 0>>}), 1>>,
     <<SortedTuple({<<-1, 0>>, <<0, 1>>}), 2>>,
     <<SortedTuple({<<-1, 0>>, <<0, -1>>, <<0, 1>>}), 3>>,
     <<SortedTuple({<<-1, 0>>, <<0, -1>>}), 4>>,
     <<SortedTuple({<<-1, 0>>, <<0, -1>>, <<1, 0>>}), 5>>,
     <<SortedTuple({<<1, 0>>, <<0, -1>>}), 6>>,
     <<SortedTuple({<<1, 0>>, <<0, -1>>, <<0, 1>>}), 7>>,
     <<SortedTuple({<<1, 0>>, <<-1, 0>>, <<0, 1>>, <<0, -1>>}), 8>>}

\* AUTOTILE_MAP: the pairs (sorted tuple of shifts, variant)
AUTOTILE_MAP ==
    {<<SortedTuple({<<1, 0>>, <<0, 1>>}), 0>>,
     <<SortedTuple({<<1, 0>>, <<0, 1>>, <<-1, 0>>}), 1>>,
     <<SortedTuple({<<-1, 0>>, <<0, 1>>}), 2>>,
     <<SortedTuple({<<-1, 0>>, <<0, -1>>, <<0, 1>>}), 3>>,
     <<SortedTuple({<<-1, 0>>, <<0, -1>>}), 4>>,
     <<SortedTuple({<<-1, 0>>, <<0, -1>>, <<1, 0>>}), 5>>,
     <<SortedTuple({<<1, 0>>, <<0, -1>>}), 6>>,
     <<SortedTuple({<<1, 0>>, <<0, -1>>, <<0, 1>>}), 7>>,
     <<SortedTuple({<<1, 0>>, <<-1, 0>>, <<0, 1>>, <<0, -1>>}), 8>>}

AUTOTILE_TYPES == {"grass", "stone"}

\* neighbors in AUTOTILE_MAP, AUTOTILE_MAP[neighbors]
MapHas(neighbors) == \E e \in AUTOTILE_MAP : e[1] = neighbors

MapGet(neighbors) == (CHOOSE e \in AUTOTILE_MAP : e[1] = neighbors)[2]

\* a variant of the neighbour test that also wants the neighbour to show the
\* variant the tile shows
LooksAlike(tm, tile, shift) ==
    /\ DictHas(tm, Key(TileX(tile) + shift[1], TileY(tile) + shift[2]))
    /\ DictGet(tm, Key(TileX(tile) + shift[1], TileY(tile) + shift[2])).type = tile.type
    /\ DictGet(tm, Key(TileX(tile) + shift[1], TileY(tile) + shift[2])).variant = tile.variant

\* check_loc in self.tilemap and self.tilemap[check_loc]['type'] == tile['type']
SameType(tm, tile, shift) ==
    /\ DictHas(tm, Key(TileX(tile) + shift[1], TileY(tile) + shift[2]))
    /\ DictGet(tm, Key(TileX(tile) + shift[1], TileY(tile) + shift[2])).type = tile.type

\* the sorted tuple of the shifts at which the tile has a same-type neighbour
Neighbors(tm, tile) ==
    SortedTuple({SHIFTS[k] : k \in {j \in DOMAIN SHIFTS : SameType(tm, tile, SHIFTS[j])}})

\* a variant of the assignment that adds the old variant to the new one
Rotated(tile, neighbors) ==
    IF tile.type \in AUTOTILE_TYPES /\ MapHas(neighbors)
    THEN [tile EXCEPT !.variant = (MapGet(neighbors) + @ + 1) % 9]
    ELSE tile

\* a variant of the assignment that gives variant 0 to a tile without a
\* table entry
Defaulted(tile, neighbors) ==
    IF tile.type \in AUTOTILE_TYPES
    THEN [tile EXCEPT !.variant = IF MapHas(neighbors) THEN MapGet(neighbors) ELSE 0]
    ELSE tile

\* the tile after the last statement of the loop of AutoTile
Retiled(tile, neighbors) ==
    IF tile.type \in AUTOTILE_TYPES /\ MapHas(neighbors)
    THEN [tile EXCEPT !.variant = MapGet(neighbors)]
    ELSE tile

\* one pass of the loop of AutoTile, at the k-th entry of the dict
AutoTileAt(tm, k) ==
    [tm EXCEPT ![k].val = Retiled(tm[k].val, Neighbors(tm, tm[k].val))]

\* the loop of AutoTile from the k-th entry of the dict on
RECURSIVE AutoTileFrom(_, _)
AutoTileFrom(tm, k) ==
    IF k > Len(tm) THEN tm
    ELSE Only({AutoTileFrom(next, k + 1) : next \in {AutoTileAt(tm, k)}})

\* Tilemap.AutoTile
AutoTile(tm) == AutoTileFrom(tm, 1)

\* ------------------------------------------------------------------------
\* json.dump / json.load, as Save and Load use them
\* ------------------------------------------------------------------------

\* largest integer a persisted number token is parsed into
MaxNum == 64

\* a JSON number token: sign, digits of the integer part, and the digits
\* after the decimal point ("" when the token has no decimal point)
\* json.dump writes an int as str(n) and a float as repr(f)
FracDigits(m) ==
    CASE m.h = 0 /\ m.l = 0 -> "0"
      [] m.h = Pow2(27) /\ m.l = 0 -> "5"

\* a writer that leaves the ".0" of a whole float away
JsonNumberShort(n) ==
    [neg |-> n.f.neg, whole |-> ToString(n.f.m.i),
     frac |-> IF n.int \/ FIsInt(n.f) THEN "" ELSE FracDigits(n.f.m)]

JsonNumber(n) ==
    [neg |-> n.f.neg, whole |-> ToString(n.f.m.i),
     frac |-> IF n.int THEN "" ELSE FracDigits(n.f.m)]

ParseDigits(text) == CHOOSE n \in 0..MaxNum : ToString(n) = text

\* json.load: a token without decimal point is an int, any other a float
ParseNumber(tok) ==
    IF tok.frac = ""
    THEN PyInt(IF tok.neg THEN -ParseDigits(tok.whole) ELSE ParseDigits(tok.whole))
    ELSE PyFloat(Flt(tok.neg,
             Mag(ParseDigits(tok.whole), IF tok.frac = "5" THEN Pow2(27) ELSE 0, 0)))

\* a tile record as a JSON object; tuple and list are both written as arrays
JsonTile(tile) ==
    [type |-> tile.type, variant |-> JsonNumber(PyInt(tile.variant)),
     pos |-> <<JsonNumber(tile.pos[1]), JsonNumber(tile.pos[2])>>]

ParseTile(obj) ==
    Tile(obj.type, FTrunc(ParseNumber(obj.variant).f),
         ParseNumber(obj.pos[1]), ParseNumber(obj.pos[2]), "list")

DocFields == {"tilemap", "tile_size", "offgrid"}

\* the document Tilemap.Save writes
SaveDoc(tm, ts, off) ==
    [fields   |-> DocFields,
     tilemap  |-> [k \in DOMAIN tm |-> [key |-> tm[k].key, val |-> JsonTile(tm[k].val)]],
     tile_size |-> JsonNumber(PyInt(ts)),
     offgrid  |-> [k \in DOMAIN off |-> JsonTile(off[k])]]

NoFile == [exists |-> FALSE, doc |-> SaveDoc(<< >>, 0, << >>)]

File(doc) == [exists |-> TRUE, doc |-> doc]

\* Tilemap.Load on the file at a path: open() raises FileNotFoundError for a
\* missing file; the three fields are then assigned one after the other,
\* each map_data[...] raising KeyError when the document lacks the field
Load(file, tm, ts, off) ==
    LET doc == file.doc
        tm1 == [k \in DOMAIN doc.tilemap |->
                   [key |-> doc.tilemap[k].key, val |-> ParseTile(doc.tilemap[k].val)]]
        ts1 == FTrunc(ParseNumber(doc.tile_size).f)
        of1 == [k \in DOMAIN doc.offgrid |-> ParseTile(doc.offgrid[k])]
    IN  IF ~file.exists
        THEN [err |-> "FileNotFoundError", tilemap |-> tm, tile_size |-> ts, offgrid |-> off]
        ELSE IF "tilemap" \notin doc.fields
        THEN [err |-> "KeyError", tilemap |-> tm, tile_size |-> ts, offgrid |-> off]
        ELSE IF "tile_size" \notin doc.fields
        THEN [err |-> "KeyError", tilemap |-> tm1, tile_size |-> ts, offgrid |-> off]
        ELSE IF "offgrid" \notin doc.fields
        THEN [err |-> "KeyError", tilemap |-> tm1, tile_size |-> ts1, offgrid |-> off]
        ELSE [err |-> NoError, tilemap |-> tm1, tile_size |-> ts1, offgrid |-> of1]

\* ------------------------------------------------------------------------
\* scripts/Entities.py
\* ------------------------------------------------------------------------

NoCollisions == [up |-> FALSE, down |-> FALSE, right |-> FALSE, left |-> FALSE]

\* PhysicsEntity.__init__ (the fields of Player.__init__ are set to the
\* values an entity that is no player never reads)
PhysicsEntity(type, p, size) ==
    [type |-> type, pos |-> p, size |-> size, velocity |-> <<FInt(0), FInt(0)>>,
     collisions |-> NoCollisions, flip |-> FALSE, last_movement |-> <<FInt(0), FInt(0)>>,
     air_time |-> 0, jumps |-> 0, wall_slide |-> FALSE, dashing |-> 0, parry |-> 0,
     impact |-> 0, walking |-> 0]

\* Player.__init__
Player(p, size) ==
    [PhysicsEntity("player", p, size) EXCEPT
        !.air_time = 0, !.jumps = 2, !.wall_slide = FALSE, !.dashing = 0, !.parry = 0,
        !.velocity = <<FInt(1), FInt(0)>>, !.impact = 0]

\* PhysicsEntity.Rect: pygame.Rect keeps C ints, a float coordinate loses
\* its fraction
EntityRect(e) == Rect(FTrunc(e.pos[1]), FTrunc(e.pos[2]), e.size[1], e.size[2])

\* pygame.Rect.colliderect: the interiors meet; a rect without area meets none
CollideRect(a, b) ==
    /\ a.w > 0 /\ a.h > 0 /\ b.w > 0 /\ b.h > 0
    /\ a.x < b.x + b.w /\ b.x < a.x + a.w
    /\ a.y < b.y + b.h /\ b.y < a.y + a.h

\* a clamp of the left edge of the entity rect, whatever the direction
ClampXLeftEdge(er, rect, fmx) ==
    IF FLess(FZero, fmx) THEN rect.x ELSE IF FLess(fmx, FZero) THEN rect.x + rect.w ELSE er.x

\* entity_rect.right = rect.left (moving right), entity_rect.left = rect.right
\* (moving left): the x of the entity rect after the clamp
ClampX(er, rect, fmx) ==
    LET x1 == IF FLess(FZero, fmx) THEN rect.x - er.w ELSE er.x
    IN  IF FLess(fmx, FZero) THEN rect.x + rect.w ELSE x1

\* a vertical pass that leaves the entity rect where it is
ClampYNever(er, rect, fmy) == er.y

\* entity_rect.bottom = rect.top (moving down), entity_rect.top = rect.bottom
\* (moving up): the y of the entity rect after the clamp
ClampY(er, rect, fmy) ==
    LET y1 == IF FLess(FZero, fmy) THEN rect.y - er.h ELSE er.y
    IN  IF FLess(fmy, FZero) THEN rect.y + rect.h ELSE y1

\* one turn of the loop of the horizontal pass: st holds the entity rect,
\* pos[0] and the two collision flags of the pass
HitX(rect, fmx, st) ==
    IF CollideRect(st.rect, rect)
    THEN [rect  |-> [st.rect EXCEPT !.x = ClampX(st.rect, rect, fmx)],
          p     |-> FInt(ClampX(st.rect, rect, fmx)),
          plus  |-> st.plus \/ FLess(FZero, fmx),
          minus |-> st.minus \/ FLess(fmx, FZero)]
    ELSE st

\* the loop of the horizontal pass over the rects around the entity
RECURSIVE ResolveX(_, _, _, _)
ResolveX(rects, k, fmx, st) ==
    IF k > Len(rects) THEN st
    ELSE Only({ResolveX(rects, k + 1, fmx, next) : next \in {HitX(rects[k], fmx, st)}})

\* one turn of the loop of the vertical pass
HitY(rect, fmy, st) ==
    IF CollideRect(st.rect, rect)
    THEN [rect  |-> [st.rect EXCEPT !.y = ClampY(st.rect, rect, fmy)],
          p     |-> FInt(ClampY(st.rect, rect, fmy)),
          plus  |-> st.plus \/ FLess(FZero, fmy),
          minus |-> st.minus \/ FLess(fmy, FZero)]
    ELSE st

\* the loop of the vertical pass
RECURSIVE ResolveY(_, _, _, _)
ResolveY(rects, k, fmy, st) ==
    IF k > Len(rects) THEN st
    ELSE Only({ResolveY(rects, k + 1, fmy, next) : next \in {HitY(rects[k], fmy, st)}})

\* gravity without the cap
GravityNoCap(vy) == FAdd(vy, F0_1)

\* gravity in steps of 0.0625
GravitySlow(vy) == FMin(FInt(5), FAdd(vy, Flt(FALSE, Mag(0, Pow2(24), 0))))

\* velocity[1] = min(5, velocity[1] + 0.1)
Gravity(vy) == FMin(FInt(5), FAdd(vy, F0_1))

\* an Update without the reset of velocity[1]
SettleYNoReset(vy, collisions) == Gravity(vy)

\* velocity[1] after the gravity step and the reset on a vertical collision
SettleY(vy, collisions) ==
    IF collisions.down \/ collisions.up THEN FInt(0) ELSE Gravity(vy)

\* the horizontal pass of Update: pos[0] += frame_movement[0], then the loop
XPass(e, tm, ts, fmx) ==
    Only({Only({ResolveX(rects, 1, fmx,
                    [rect |-> Rect(FTrunc(x), FTrunc(e.pos[2]), e.size[1], e.size[2]),
                     p |-> x, plus |-> FALSE, minus |-> FALSE])
                : rects \in {Physics_Rects_Around(tm, ts, <<x, e.pos[2]>>)}})
          : x \in {FAdd(e.pos[1], fmx)}})

\* the vertical pass of Update: pos[1] += frame_movement[1], then the loop
YPass(e, tm, ts, x, fmy) ==
    Only({Only({ResolveY(rects, 1, fmy,
                    [rect |-> Rect(FTrunc(x), FTrunc(y), e.size[1], e.size[2]),
                     p |-> y, plus |-> FALSE, minus |-> FALSE])
                : rects \in {Physics_Rects_Around(tm, ts, <<x, y>>)}})
          : y \in {FAdd(e.pos[2], fmy)}})

\* a variant of the end of Update that keeps the flags of the previous Update
SettleSticky(e, movement, sx, sy) ==
    [e EXCEPT
        !.pos = <<sx.p, sy.p>>,
        !.collisions = [up |-> @.up \/ sy.minus, down |-> @.down \/ sy.plus,
                        right |-> @.right \/ sx.plus, left |-> @.left \/ sx.minus],
        !.flip = IF FLess(movement[1], FZero) THEN TRUE
                 ELSE IF FLess(FZero, movement[1]) THEN FALSE ELSE @,
        !.last_movement = movement,
        !.velocity[2] = SettleY(@, [up |-> sy.minus, down |-> sy.plus])]

\* a variant of the end of Update that always reports ground contact
SettleGrounded(e, movement, sx, sy) ==
    [e EXCEPT
        !.pos = <<sx.p, sy.p>>,
        !.collisions = [up |-> sy.minus, down |-> TRUE,
                        right |-> sx.plus, left |-> sx.minus],
        !.flip = IF FLess(movement[1], FZero) THEN TRUE
                 ELSE IF FLess(FZero, movement[1]) THEN FALSE ELSE @,
        !.last_movement = movement,
        !.velocity[2] = SettleY(@, [up |-> sy.minus, down |-> sy.plus])]

\* the end of Update: position, collisions, flip, last_movement, gravity and
\* the reset of velocity[1]
Settle(e, movement, sx, sy) ==
    [e EXCEPT
        !.pos = <<sx.p, sy.p>>,
        !.collisions = [up |-> sy.minus, down |-> sy.plus,
                        right |-> sx.plus, left |-> sx.minus],
        !.flip = IF FLess(movement[1], FZero) THEN TRUE
                 ELSE IF FLess(FZero, movement[1]) THEN FALSE ELSE @,
        !.last_movement = movement,
        !.velocity[2] = SettleY(@, [up |-> sy.minus, down |-> sy.plus])]

\* a variant of Update whose vertical pass tests at the x the body had before
\* the horizontal pass corrected it
PhysicsUpdateUncorrected(e, tm, ts, movement) ==
    Only({Only({Settle(e, movement, sx, sy)
                : sy \in {YPass(e, tm, ts, FAdd(e.pos[1], FAdd(movement[1], e.velocity[1])),
                                FAdd(movement[2], e.velocity[2]))}})
          : sx \in {XPass(e, tm, ts, FAdd(movement[1], e.velocity[1]))}})

\* PhysicsEntity.Update
PhysicsUpdate(e, tm, ts, movement) ==
    Only({Only({Settle(e, movement, sx, sy)
                : sy \in {YPass(e, tm, ts, sx.p, FAdd(movement[2], e.velocity[2]))}})
          : sx \in {XPass(e, tm, ts, FAdd(movement[1], e.velocity[1]))}})

\* abs(n) and the step of a counter toward 0
Abs(n) == IF n < 0 THEN -n ELSE n

TowardZero(n) == IF n > 0 THEN n - 1 ELSE IF n < 0 THEN n + 1 ELSE 0

Max(a, b) == IF a < b THEN b ELSE a

\* the parry loop of Player.Update: a projectile [pos, x velocity, timer]
\* that flies against the way the player faces and is nearer than 10 pixels
\* is turned around
ParryProjectile(e, pr) ==
    LET distance  == FSub(pr.pos[1], e.pos[1])
        direction == IF e.flip THEN -1 ELSE 1
        against   == \/ direction = 1 /\ FLess(pr.vel, FZero)
                     \/ direction = -1 /\ FLess(FZero, pr.vel)
        near      == FLess(distance, FInt(10)) /\ FLess(FInt(-10), distance)
    IN  IF against /\ near THEN [pr EXCEPT !.vel = FNeg(@)] ELSE pr

\* the dash velocity abs(dashing) / dashing * 8, times 0.1 on the frame the
\* counter shows 51 (8 * 0.1 is exact in binary64)
DashVelocity(dashing) ==
    LET fast == Flt(dashing < 0, Mag(8, 0, 0))
        slow == Flt(dashing < 0, Mag(0, 214748364, 214748368))
    IN  IF Abs(dashing) = 51 THEN slow ELSE fast

\* the friction step at the end of Player.Update
Friction(vx) ==
    IF FLess(FZero, vx) THEN FMax(FSub(vx, F0_1), FZero) ELSE FMin(FAdd(vx, F0_1), FZero)

\* Player.Update after super().Update has left p0
PlayerAfter(p0, g) ==
    LET air1 == p0.air_time + 1
        late == air1 > 120
        air2 == IF p0.collisions.down THEN 0 ELSE air1
        jmp  == IF p0.collisions.down THEN 2 ELSE p0.jumps
        wall == (p0.collisions.right \/ p0.collisions.left) /\ air2 > 4
        air3 == IF wall THEN 5 ELSE air2
        vy   == IF wall THEN FMin(p0.velocity[2], F0_5) ELSE p0.velocity[2]
        flp  == IF wall THEN ~p0.collisions.right ELSE p0.flip
        dsh  == TowardZero(p0.dashing)
        par  == TowardZero(p0.parry)
        imp  == IF p0.impact > 0 THEN Max(0, p0.impact - 1) ELSE p0.impact
        p1   == [p0 EXCEPT !.air_time = air3, !.jumps = jmp, !.wall_slide = wall,
                           !.velocity[2] = vy, !.flip = flp, !.dashing = dsh,
                           !.parry = par, !.impact = imp]
        proj == IF Abs(par) > 0
                THEN [k \in DOMAIN g.projectiles |-> ParryProjectile(p1, g.projectiles[k])]
                ELSE g.projectiles
        vx   == IF Abs(dsh) > 50 THEN DashVelocity(dsh) ELSE p0.velocity[1]
        made == (IF Abs(dsh) > 50 THEN 1 ELSE 0) + (IF Abs(dsh) \in {60, 50} THEN 20 ELSE 0)
    IN  [e |-> [p1 EXCEPT !.velocity[1] = Friction(vx)],
         g |-> [g EXCEPT !.dead = IF late THEN @ + 1 ELSE @,
                         !.screenshake = IF late THEN Max(16, @) ELSE @,
                         !.projectiles = proj,
                         !.spawned = made]]

\* Player.Update; g holds the fields of the Game object it writes
PlayerUpdate(e, g, tm, ts, movement) ==
    Only({PlayerAfter(p0, g) : p0 \in {PhysicsUpdate(e, tm, ts, movement)}})

\* a variant of Jump whose normal jump does not test the jumps left
JumpFree(e) ==
    IF e.wall_slide /\ e.flip /\ FLess(e.last_movement[1], FZero)
    THEN [e |-> [e EXCEPT !.velocity = <<F4_5, FInt(-2)>>, !.air_time = 5,
                          !.jumps = Max(0, e.jumps - 1)], ret |-> TRUE]
    ELSE IF e.wall_slide /\ ~e.flip /\ FLess(FZero, e.last_movement[1])
    THEN [e |-> [e EXCEPT !.velocity = <<FNeg(F4_5), FInt(-2)>>, !.air_time = 5,
                          !.jumps = Max(0, e.jumps - 1)], ret |-> TRUE]
    ELSE [e |-> [e EXCEPT !.velocity[2] = FInt(-3), !.jumps = e.jumps - 1, !.air_time = 5],
          ret |-> FALSE]

\* a variant of Jump whose wall jump needs a jump left
JumpWithJumps(e) ==
    IF e.jumps # 0 /\ e.wall_slide /\ e.flip /\ FLess(e.last_movement[1], FZero)
    THEN [e |-> [e EXCEPT !.velocity = <<F4_5, FInt(-2)>>, !.air_time = 5,
                          !.jumps = Max(0, e.jumps - 1)], ret |-> TRUE]
    ELSE IF e.jumps # 0 /\ e.wall_slide /\ ~e.flip /\ FLess(FZero, e.last_movement[1])
    THEN [e |-> [e EXCEPT !.velocity = <<FNeg(F4_5), FInt(-2)>>, !.air_time = 5,
                          !.jumps = Max(0, e.jumps - 1)], ret |-> TRUE]
    ELSE IF e.jumps # 0
    THEN [e |-> [e EXCEPT !.velocity[2] = FInt(-3), !.jumps = e.jumps - 1, !.air_time = 5],
          ret |-> FALSE]
    ELSE [e |-> e, ret |-> FALSE]

\* Player.Jump: the player it leaves and the value it returns
Jump(e) ==
    IF e.wall_slide /\ e.flip /\ FLess(e.last_movement[1], FZero)
    THEN [e |-> [e EXCEPT !.velocity = <<F4_5, FInt(-2)>>, !.air_time = 5,
                          !.jumps = Max(0, e.jumps - 1)], ret |-> TRUE]
    ELSE IF e.wall_slide /\ ~e.flip /\ FLess(FZero, e.last_movement[1])
    THEN [e |-> [e EXCEPT !.velocity = <<FNeg(F4_5), FInt(-2)>>, !.air_time = 5,
                          !.jumps = Max(0, e.jumps - 1)], ret |-> TRUE]
    ELSE IF e.jumps # 0
    THEN [e |-> [e EXCEPT !.velocity[2] = FInt(-3), !.jumps = e.jumps - 1, !.air_time = 5],
          ret |-> FALSE]
    ELSE [e |-> e, ret |-> FALSE]

\* a variant of Dash without the test of the counter
DashAnytime(e) == [e EXCEPT !.dashing = IF e.flip THEN -60 ELSE 60]

\* Player.Dash
Dash(e) ==
    IF e.dashing = 0 THEN [e EXCEPT !.dashing = IF e.flip THEN -60 ELSE 60] ELSE e

\* Player.Parry
Parry(e) ==
    IF e.parry = 0 THEN [e EXCEPT !.parry = IF e.flip THEN -60 ELSE 60] ELSE e

\* ------------------------------------------------------------------------
\* Game.py: Load_Level
\* ------------------------------------------------------------------------

PlayerSize == <<8, 15>>

\* the fields of the Game object that Load_Level and the entities write;
\* spawned is the number of particles the last Player.Update appended
NewGame ==
    [level |-> 0, leaf_spawners |-> << >>, enemies |-> << >>, projectiles |-> << >>,
     movement |-> <<FALSE, FALSE>>, dead |-> 0, screenshake |-> 0, transition |-> 0,
     spawned |-> 0]

\* pygame.Rect(4 + tree['pos'][0], 4 + tree['pos'][1], 23, 13)
LeafRect(tree) ==
    Rect(FTrunc(FAdd(FInt(4), tree.pos[1].f)), FTrunc(FAdd(FInt(4), tree.pos[2].f)), 23, 13)

\* a variant of the spawner loop that places nobody
PlaceSpawnersNowhere(spawners, k, st) == st

\* the loop of Load_Level over the extracted spawners
RECURSIVE PlaceSpawners(_, _, _)
PlaceSpawners(spawners, k, st) ==
    IF k > Len(spawners) THEN st
    ELSE LET sp == spawners[k]
             at == <<sp.pos[1].f, sp.pos[2].f>>
         IN  IF sp.variant = 0
             THEN PlaceSpawners(spawners, k + 1,
                      [st EXCEPT !.e.pos = at, !.e.air_time = 0])
             ELSE PlaceSpawners(spawners, k + 1,
                      [st EXCEPT !.enemies = Append(@, PhysicsEntity("enemy", at, PlayerSize))])

\* what Load_Level leaves when it ends with err
Left(err, t, ts, o, g, e) ==
    [err |-> err, tilemap |-> t, tile_size |-> ts, offgrid |-> o, g |-> g, e |-> e]

\* Load_Level after the second Extract has returned sp
SpawnAll(g, e, ts, sp) ==
    IF sp.err # NoError
    THEN Left(sp.err, sp.tilemap, ts, sp.offgrid, [g EXCEPT !.enemies = << >>], e)
    ELSE Only({Left(NoError, sp.tilemap, ts, sp.offgrid,
                    [g EXCEPT !.enemies = placed.enemies, !.projectiles = << >>,
                              !.dead = 0, !.transition = -30],
                    placed.e)
               : placed \in {PlaceSpawners(sp.matches, 1, [e |-> e, enemies |-> << >>])}})

\* Load_Level after the first Extract has returned trees
SpawnLeaves(g, e, ts, trees) ==
    IF trees.err # NoError THEN Left(trees.err, trees.tilemap, ts, trees.offgrid, g, e)
    ELSE Only({SpawnAll([g EXCEPT !.leaf_spawners =
                             [k \in DOMAIN trees.matches |-> LeafRect(trees.matches[k])]],
                        e, ts, sp)
               : sp \in {Extract(trees.tilemap, ts, trees.offgrid,
                                 {<<"spawners", 0>>, <<"spawners", 1>>}, FALSE)}})

\* Load_Level after Load has returned ld
AfterLoad(g, e, ld) ==
    IF ld.err # NoError THEN Left(ld.err, ld.tilemap, ld.tile_size, ld.offgrid, g, e)
    ELSE Only({SpawnLeaves(g, e, ld.tile_size, trees)
               : trees \in {Extract(ld.tilemap, ld.tile_size, ld.offgrid,
                                    {<<"large_decor", 2>>}, TRUE)}})

\* Game.Load_Level on the file of the level: what it leaves of the
\* tilemap, the game and the player, and the exception that ends it
Load_Level(g, e, file, tm, ts, off) ==
    Only({AfterLoad(g, e, ld) : ld \in {Load(file, tm, ts, off)}})

\* ------------------------------------------------------------------------
\* Entities.py: Enemy.Update; Game.py: the frame of Game.Run
\* ------------------------------------------------------------------------

\* the x velocity 1.5 of a projectile
F1_5 == Flt(FALSE, Mag(1, Pow2(27), 0))

\* Rect().centerx and Rect().centery
CenterX(e) == EntityRect(e).x + e.size[1] \div 2

CenterY(e) == EntityRect(e).y + e.size[2] \div 2

\* the projectile [pos, x velocity, timer] an enemy appends
Shot(e, left) ==
    [pos |-> <<FInt(CenterX(e) + (IF left THEN -7 ELSE 7)), FInt(CenterY(e))>>,
     vel |-> IF left THEN FNeg(F1_5) ELSE F1_5, timer |-> 0]

\* a variant of the walk that shoots whatever the height of the player
EnemyWalkAnyHeight(en, pl, tm, ts, walk) ==
    LET ground   == Solid_Check(tm, ts, <<FInt(CenterX(en) + (IF en.flip THEN -7 ELSE 7)),
                                          FAdd(en.pos[2], FInt(23))>>) # << >>
        hit      == en.collisions.right \/ en.collisions.left
        walks    == en.walking # 0
        flip1    == IF walks /\ (~ground \/ hit) THEN ~en.flip ELSE en.flip
        movement == IF walks /\ ground /\ ~hit
                    THEN <<IF en.flip THEN FNeg(F0_5) ELSE F0_5, FZero>>
                    ELSE <<FZero, FZero>>
        walking1 == IF walks THEN Max(0, en.walking - 1) ELSE walk
        dx       == FSub(pl.pos[1], en.pos[1])
        aims     == walks /\ walking1 = 0
    IN  [e |-> [en EXCEPT !.flip = flip1, !.walking = walking1],
         movement |-> movement,
         shots |-> IF aims /\ flip1 /\ FLess(dx, FZero) THEN <<Shot(en, TRUE)>>
                   ELSE IF aims /\ ~flip1 /\ FLess(FZero, dx) THEN <<Shot(en, FALSE)>>
                   ELSE << >>]

\* Enemy.Update up to super().Update: the enemy, the movement it passes on
\* and the projectiles it appends; walk is what random.randint returns when
\* random.random() < 0.01, and 0 when the draw is not below 0.01
EnemyWalk(en, pl, tm, ts, walk) ==
    LET ground   == Solid_Check(tm, ts, <<FInt(CenterX(en) + (IF en.flip THEN -7 ELSE 7)),
                                          FAdd(en.pos[2], FInt(23))>>) # << >>
        hit      == en.collisions.right \/ en.collisions.left
        walks    == en.walking # 0
        flip1    == IF walks /\ (~ground \/ hit) THEN ~en.flip ELSE en.flip
        movement == IF walks /\ ground /\ ~hit
                    THEN <<IF en.flip THEN FNeg(F0_5) ELSE F0_5, FZero>>
                    ELSE <<FZero, FZero>>
        walking1 == IF walks THEN Max(0, en.walking - 1) ELSE walk
        dx       == FSub(pl.pos[1], en.pos[1])
        dy       == FSub(pl.pos[2], en.pos[2])
        aims     == walks /\ walking1 = 0 /\ FLess(dy, FInt(16)) /\ FLess(FInt(-16), dy)
    IN  [e |-> [en EXCEPT !.flip = flip1, !.walking = walking1],
         movement |-> movement,
         shots |-> IF aims /\ flip1 /\ FLess(dx, FZero) THEN <<Shot(en, TRUE)>>
                   ELSE IF aims /\ ~flip1 /\ FLess(FZero, dx) THEN <<Shot(en, FALSE)>>
                   ELSE << >>]

\* a variant of the hit test of Enemy.Update that takes any dash counter
EnemyHitAlways(en, pl) == CollideRect(EntityRect(en), EntityRect(pl))

\* the end of Enemy.Update: a dashing player that touches the enemy
EnemyHit(en, pl) == Abs(pl.dashing) >= 50 /\ CollideRect(EntityRect(en), EntityRect(pl))

\* Enemy.Update: the enemy it leaves, the projectiles it appends and the
\* value it returns
EnemyUpdate(en, pl, tm, ts, walk) ==
    Only({Only({[e |-> e1, shots |-> w.shots, kill |-> EnemyHit(e1, pl)]
                : e1 \in {PhysicsUpdate(w.e, tm, ts, w.movement)}})
          : w \in {EnemyWalk(en, pl, tm, ts, walk)}})

\* the loop of Game.Run over a copy of the enemies; walks[k] is the draw
\* of enemy k; st holds the enemies kept, the game and the player, and for
\* every Enemy.Update of the loop the enemy before and after it, the player
\* it saw, the projectiles it appended and the value it returned
RECURSIVE UpdateEnemies(_, _, _, _, _, _)
UpdateEnemies(enemies, k, walks, tm, ts, st) ==
    IF k > Len(enemies) THEN st
    ELSE Only({UpdateEnemies(enemies, k + 1, walks, tm, ts, st1)
               : st1 \in {[kept |-> IF r.kill THEN st.kept ELSE Append(st.kept, r.e),
                            g |-> [st.g EXCEPT !.projectiles = @ \o r.shots,
                                               !.screenshake = IF r.kill THEN Max(16, @)
                                                               ELSE @],
                            e |-> IF r.kill THEN [st.e EXCEPT !.impact = 10] ELSE st.e,
                            calls |-> Append(st.calls,
                                             [before |-> enemies[k], after |-> r.e,
                                              player |-> st.e, shots |-> r.shots,
                                              kill |-> r.kill])]
                           : r \in {EnemyUpdate(enemies[k], st.e, tm, ts, walks[k])}}})

\* pygame.Rect.collidepoint on a position of floats: the coordinates lose
\* their fractions
CollidePoint(r, p) ==
    /\ r.x <= FTrunc(p[1]) /\ FTrunc(p[1]) < r.x + r.w
    /\ r.y <= FTrunc(p[2]) /\ FTrunc(p[2]) < r.y + r.h

\* the lifetime of a projectile, in frames
ProjectileLife == 360

\* projectile[0][0] += projectile[1]; projectile[2] += 1
Flown(pr) == [pr EXCEPT !.pos[1] = FAdd(@, pr.vel), !.timer = @ + 1]

\* a variant of the player-hit test of the projectile loop that takes any
\* dash counter
StruckAlways(pr, pl) == CollidePoint(EntityRect(pl), pr.pos)

\* the player-hit test of the projectile loop
Struck(pr, pl) == Abs(pl.dashing) < 50 /\ CollidePoint(EntityRect(pl), pr.pos)

\* a variant of the lifetime test that lets every projectile live on
ExpiredNever(pr) == FALSE

\* elif projectile[2] > 360
Expired(pr) == pr.timer > ProjectileLife

\* the loop of Game.Run over a copy of the projectiles; st holds the
\* projectiles kept, dead, screenshake and the count of hits on the player
RECURSIVE UpdateProjectiles(_, _, _, _, _, _)
UpdateProjectiles(projectiles, k, pl, tm, ts, st) ==
    IF k > Len(projectiles) THEN st
    ELSE Only({UpdateProjectiles(projectiles, k + 1, pl, tm, ts, st1)
               : st1 \in {IF Solid_Check(tm, ts, pr.pos) # << >> \/ Expired(pr)
                           THEN st
                           ELSE IF Struck(pr, pl)
                           THEN [st EXCEPT !.dead = @ + 1, !.screenshake = Max(16, @),
                                           !.hits = @ + 1]
                           ELSE [st EXCEPT !.kept = Append(@, pr),
                                           !.spared = @ + (IF StruckAlways(pr, pl) THEN 1
                                                           ELSE 0)]
                           : pr \in {Flown(projectiles[k])}}})

\* ------------------------------------------------------------------------
\* state
\* ------------------------------------------------------------------------

VARIABLES
    prog,           \* the running program: "none", "editor", "game", "crashed"; "bodies"
                    \* and "run" for entities under update, "play" for the game loop,
                    \* "anim" for the animations
    tilemap,        \* Tilemap.tilemap
    tile_size,      \* Tilemap.tile_size
    offgrid_tiles,  \* Tilemap.offgrid_tiles
    disk,           \* the map files: path -> file
    saved,          \* what the tilemap held when Save last wrote the editor's file
    matches,        \* the list the last Extract returned
    query,          \* what the last spatial queries returned
    err,            \* the exception the last operation raised
    op,             \* the last operation
    steps,          \* operations that took an input so far
    game,           \* fields of the Game object
    ent,            \* the entity under update (the player, in the game)
    args,           \* the arguments of the last call
    calm            \* Updates in a row, counted from velocity.y = 0, with no
                    \* horizontal movement and no vertical collision (-1: none)

vars == <<prog, tilemap, tile_size, offgrid_tiles, disk, saved, matches, query,
          err, op, steps, game, ent, args, calm>>

tileVars == <<tilemap, tile_size, offgrid_tiles>>

EditorPath == "data/maps/map.json"

LevelPath(map_id) == "data/maps/" \o ToString(map_id) \o ".json"

Snapshot(tm, ts, off) == [tilemap |-> tm, tile_size |-> ts, offgrid |-> off]

NoQuery == [at |-> <<FZero, FZero>>, tiles |-> << >>, rects |-> << >>, solid |-> << >>]

\* ------------------------------------------------------------------------
\* bounds and inputs of the tilemap specification
\* ------------------------------------------------------------------------

\* edits in one run of the editor specification
MaxEdits == 3

\* calls on the tilemap in one run of the game specification
MaxCalls == 2

\* the (type, variant) selections the editor places
Palette == {<<"grass", 1>>, <<"spawners", 0>>}

\* mouse clicks: the mouse position in window pixels and the camera scroll
Clicks == {<<<<33, 2>>, <<0, 0>>>>, <<<<1, 2>>, <<-16, 0>>>>}

\* width and height of a tile image (the images are no part of the sources)
ImageSizes == {<<16, 16>>}

\* the arguments Extract is called with
IdPairSets == {{<<"large_decor", 2>>}, {<<"spawners", 0>>, <<"spawners", 1>>}, {<<"grass", 1>>}}

\* positions the spatial queries are asked about
QueryPoints ==
    {<<FInt(0), FInt(0)>>, <<Flt(TRUE, Mag(0, Pow2(27), 0)), FInt(17)>>,
     <<FInt(16), FInt(16)>>, <<FInt(-40), FInt(90)>>, <<FInt(-8), FInt(8)>>}

\* level maps as Save writes them
GridTile(type, variant, x, y) == Tile(type, variant, PyInt(x), PyInt(y), "list")

Decoration(type, variant, x2, y2) ==
    Tile(type, variant,
         PyFloat(Flt(x2 < 0, Mag(Abs(x2) \div 2, (Abs(x2) % 2) * Pow2(27), 0))),
         PyFloat(Flt(y2 < 0, Mag(Abs(y2) \div 2, (Abs(y2) % 2) * Pow2(27), 0))), "list")

GridOf(tiles) ==
    [k \in DOMAIN tiles |-> [key |-> Key(TileX(tiles[k]), TileY(tiles[k])), val |-> tiles[k]]]

\* a level whose spawners and tree are decorations
LevelDecor ==
    SaveDoc(GridOf(<<GridTile("grass", 1, 0, 1), GridTile("stone", 0, 1, 1),
                     GridTile("decor", 0, -1, 0)>>), 16,
            <<Decoration("spawners", 0, 9, 0), Decoration("large_decor", 2, -9, 2),
              Decoration("spawners", 1, 33, 0), Decoration("spawners", 1, 33, 0)>>)

\* a level whose spawners are grid tiles
LevelGrid ==
    SaveDoc(GridOf(<<GridTile("spawners", 0, 0, 0), GridTile("grass", 1, 0, 1),
                     GridTile("spawners", 1, 1, 0), GridTile("large_decor", 2, -1, 0)>>), 16,
            << >>)

\* a level without spawners
LevelPlain ==
    SaveDoc(GridOf(<<GridTile("grass", 1, 0, 1), GridTile("large_decor", 2, 1, 0)>>), 8,
            <<Decoration("decor", 3, 5, 5)>>)

LevelFiles ==
    {NoFile, File(LevelDecor), File(LevelGrid), File(LevelPlain),
     File([LevelDecor EXCEPT !.fields = {"tilemap"}]),
     File([LevelDecor EXCEPT !.fields = {"tilemap", "tile_size"}]),
     File([LevelDecor EXCEPT !.fields = {"tile_size", "offgrid"}])}

\* ------------------------------------------------------------------------
\* the tilemap specification: the editor, the start of the game, and the
\* calls the game makes on its tilemap
\* ------------------------------------------------------------------------

\* n / 2.0
HalfFloat(n) == Flt(n < 0, Mag(Abs(n) \div 2, (Abs(n) % 2) * Pow2(27), 0))

\* mpos = mouse / RENDER_SCALE
MousePos(mouse) == <<HalfFloat(mouse[1]), HalfFloat(mouse[2])>>

\* (mpos[0] + scroll[0], mpos[1] + scroll[1])
WorldPos(mouse, scroll) ==
    <<FAdd(MousePos(mouse)[1], FInt(scroll[1])), FAdd(MousePos(mouse)[2], FInt(scroll[2]))>>

\* tile_pos of the editor loop
TilePos(mouse, scroll, ts) ==
    <<CellOf(WorldPos(mouse, scroll)[1], ts), CellOf(WorldPos(mouse, scroll)[2], ts)>>

\* before a program starts
InitWith(files) ==
    /\ prog = "none"
    /\ tilemap = << >>
    /\ tile_size = DefaultTileSize
    /\ offgrid_tiles = << >>
    /\ \E f \in files : disk = [path \in {EditorPath, LevelPath(0)} |->
                                   IF path = EditorPath THEN NoFile ELSE f]
    /\ saved = Snapshot(<< >>, DefaultTileSize, << >>)
    /\ matches = << >>
    /\ query = NoQuery
    /\ err = NoError
    /\ op = "init"
    /\ steps = 0
    /\ game = NewGame
    /\ ent = Player(<<FInt(50), FInt(50)>>, PlayerSize)
    /\ args = << >>
    /\ calm = -1

\* Editor.__init__: a new Tilemap, and Load under try/except FileNotFoundError
StartEditor ==
    /\ prog = "none"
    /\ LET ld == Load(disk[EditorPath], << >>, DefaultTileSize, << >>)
           caught == ld.err \in {NoError, "FileNotFoundError"}
       IN  /\ tilemap' = ld.tilemap
           /\ tile_size' = ld.tile_size
           /\ offgrid_tiles' = ld.offgrid
           /\ prog' = IF caught THEN "editor" ELSE "crashed"
           /\ err' = IF caught THEN NoError ELSE ld.err
    /\ op' = "StartEditor"
    /\ UNCHANGED <<disk, saved, matches, query, steps, game, ent, args, calm>>

\* Editor.Run, the placement block (clicking and ongrid)
EditorPlace(mouse, scroll, sel) ==
    /\ prog = "editor" /\ steps < MaxEdits
    /\ LET at == TilePos(mouse, scroll, tile_size)
       IN  tilemap' = DictPut(tilemap, Key(at[1], at[2]),
                              Tile(sel[1], sel[2], PyInt(at[1]), PyInt(at[2]), "tuple"))
    /\ op' = "Place" /\ steps' = steps + 1 /\ err' = NoError
    /\ UNCHANGED <<prog, tile_size, offgrid_tiles, disk, saved, matches, query, game, ent, args, calm>>

\* the decorations the removal block erases: those whose image rect,
\* shifted by the scroll, holds the mouse position
RECURSIVE EraseDecorations(_, _, _, _, _, _)
EraseDecorations(copy, k, mouse, scroll, size, live) ==
    IF k > Len(copy) THEN live
    ELSE LET tile == copy[k]
             r    == Rect(FTrunc(FSub(tile.pos[1].f, FInt(scroll[1]))),
                          FTrunc(FSub(tile.pos[2].f, FInt(scroll[2]))), size[1], size[2])
             mx   == FTrunc(MousePos(mouse)[1])
             my   == FTrunc(MousePos(mouse)[2])
             hit  == r.x <= mx /\ mx < r.x + r.w /\ r.y <= my /\ my < r.y + r.h
         IN  EraseDecorations(copy, k + 1, mouse, scroll, size,
                              IF hit THEN ListRemove(live, tile) ELSE live)

\* Editor.Run, the removal block (right_clicking)
EditorRemove(mouse, scroll, size) ==
    /\ prog = "editor" /\ steps < MaxEdits
    /\ LET at == TilePos(mouse, scroll, tile_size)
       IN  tilemap' = DictDel(tilemap, Key(at[1], at[2]))
    /\ offgrid_tiles' = EraseDecorations(offgrid_tiles, 1, mouse, scroll, size, offgrid_tiles)
    /\ op' = "Remove" /\ steps' = steps + 1 /\ err' = NoError
    /\ UNCHANGED <<prog, tile_size, disk, saved, matches, query, game, ent, args, calm>>

\* Editor.Run, MOUSEBUTTONDOWN of button 1 when not ongrid
EditorAddDecoration(mouse, scroll, sel) ==
    /\ prog = "editor" /\ steps < MaxEdits
    /\ LET w == WorldPos(mouse, scroll)
       IN  offgrid_tiles' = Append(offgrid_tiles,
                                   Tile(sel[1], sel[2], PyFloat(w[1]), PyFloat(w[2]), "tuple"))
    /\ op' = "AddDecoration" /\ steps' = steps + 1 /\ err' = NoError
    /\ UNCHANGED <<prog, tilemap, tile_size, disk, saved, matches, query, game, ent, args, calm>>

\* Editor.Run, key o: Tilemap.Save
EditorSave ==
    /\ prog = "editor"
    /\ disk' = [disk EXCEPT ![EditorPath] = File(SaveDoc(tilemap, tile_size, offgrid_tiles))]
    /\ saved' = Snapshot(tilemap, tile_size, offgrid_tiles)
    /\ op' = "Save" /\ err' = NoError
    /\ UNCHANGED <<prog, tilemap, tile_size, offgrid_tiles, matches, query, steps, game, ent, args, calm>>

\* Editor.Run, pygame.QUIT: the process and its Tilemap end
EditorQuit ==
    /\ prog = "editor"
    /\ prog' = "none"
    /\ tilemap' = << >> /\ tile_size' = DefaultTileSize /\ offgrid_tiles' = << >>
    /\ op' = "Quit" /\ err' = NoError
    /\ UNCHANGED <<disk, saved, matches, query, steps, game, ent, args, calm>>

\* Game.__init__: the player, a new Tilemap, and Load_Level(0)
StartGame ==
    /\ prog = "none"
    /\ LET r == Load_Level(NewGame, Player(<<FInt(50), FInt(50)>>, PlayerSize),
                           disk[LevelPath(0)], << >>, DefaultTileSize, << >>)
       IN  /\ tilemap' = r.tilemap
           /\ tile_size' = r.tile_size
           /\ offgrid_tiles' = r.offgrid
           /\ game' = r.g
           /\ ent' = r.e
           /\ err' = r.err
           /\ prog' = IF r.err = NoError THEN "game" ELSE "crashed"
    /\ op' = "Load_Level"
    /\ UNCHANGED <<disk, saved, matches, query, steps, args, calm>>

\* a call of Tilemap.Extract on the tilemap of the game
CallExtract(id_pairs, keep) ==
    /\ prog = "game" /\ steps < MaxCalls
    /\ LET r == Extract(tilemap, tile_size, offgrid_tiles, id_pairs, keep)
       IN  /\ tilemap' = r.tilemap
           /\ offgrid_tiles' = r.offgrid
           /\ matches' = IF r.err = NoError THEN r.matches ELSE matches
           /\ err' = r.err
           /\ prog' = IF r.err = NoError THEN "game" ELSE "crashed"
    /\ op' = IF keep THEN "ExtractKeep" ELSE "Extract"
    /\ steps' = steps + 1
    /\ args' = [id_pairs |-> id_pairs, keep |-> keep]
    /\ UNCHANGED <<tile_size, disk, saved, query, game, ent, calm>>

\* x += 1 for a Python number
PyPlusOne(v) == [int |-> v.int, f |-> FAdd(v.f, FInt(1))]

\* the index in the decoration list of the k-th decoration the last Extract
\* matched: the record whose 'pos' list the k-th returned copy holds
SharedWith(off, id_pairs, k) ==
    CHOOSE j \in DOMAIN off :
        /\ <<off[j].type, off[j].variant>> \in id_pairs
        /\ Cardinality({i \in 1..j : <<off[i].type, off[i].variant>> \in id_pairs}) = k

\* the caller of Extract(id_pairs, keep=True) writes into the k-th record of
\* the list it got: record['variant'] += 1 and record['pos'][0] += 1, as
\* Update does to the pos the player was given.  A write into a shared 'pos'
\* list is a write into the decoration that holds the list.
MutateMatch(k) ==
    /\ prog = "game" /\ op = "ExtractKeep"
    /\ k \in DOMAIN matches
    /\ matches' = [matches EXCEPT ![k].variant = @ + 1, ![k].pos[1] = PyPlusOne(@)]
    /\ offgrid_tiles' =
          IF matches[k].shared
          THEN [offgrid_tiles EXCEPT
                   ![SharedWith(offgrid_tiles, args.id_pairs, k)].pos[1] = PyPlusOne(@)]
          ELSE offgrid_tiles
    /\ op' = "Mutate"
    /\ UNCHANGED <<prog, tilemap, tile_size, disk, saved, query, err, steps, game, ent, args,
                   calm>>

\* calls of Tiles_Around, Physics_Rects_Around and Solid_Check
CallQuery(p) ==
    /\ prog = "game" /\ steps < MaxCalls
    /\ query' = [at |-> p, tiles |-> Tiles_Around(tilemap, tile_size, p),
                 rects |-> Physics_Rects_Around(tilemap, tile_size, p),
                 solid |-> Solid_Check(tilemap, tile_size, p)]
    /\ op' = "Query" /\ steps' = steps + 1 /\ err' = NoError
    /\ args' = p
    /\ UNCHANGED <<prog, tilemap, tile_size, offgrid_tiles, disk, saved, matches, game, ent, calm>>

InitEditor == InitWith({NoFile})

NextEditor ==
    \/ StartEditor
    \/ \E click \in Clicks, sel \in Palette : EditorPlace(click[1], click[2], sel)
    \/ \E click \in Clicks, size \in ImageSizes : EditorRemove(click[1], click[2], size)
    \/ \E click \in Clicks, sel \in Palette : EditorAddDecoration(click[1], click[2], sel)
    \/ EditorSave
    \/ EditorQuit

SpecEditor == InitEditor /\ [][NextEditor]_vars

InitGame == InitWith(LevelFiles)

NextGame ==
    \/ StartGame
    \/ \E id_pairs \in IdPairSets, keep \in BOOLEAN : CallExtract(id_pairs, keep)
    \/ \E p \in QueryPoints : CallQuery(p)
    \/ \E k \in DOMAIN matches : MutateMatch(k)

SpecGame == InitGame /\ [][NextGame]_vars

\* ------------------------------------------------------------------------
\* the specification of single Updates: a body of any position, size and
\* velocity on a grid of 16 pixel tiles
\* ------------------------------------------------------------------------

\* Updates of one body
MaxUpdates == 2

\* a wall to the right and to the left of the origin, over a floor
GridWalls ==
    GridOf(<<GridTile("grass", 1, 1, 0), GridTile("stone", 0, -1, 0),
             GridTile("stone", 0, 0, 1), GridTile("grass", 1, 1, 1),
             GridTile("grass", 1, 2, 0), GridTile("decor", 0, 0, 0)>>)

\* one solid tile right of the origin, and a ceiling tile
GridSingle ==
    GridOf(<<GridTile("stone", 0, 1, 0), GridTile("decor", 0, 0, 0),
             GridTile("grass", 1, -1, -1)>>)

BodyGrids == {GridWalls, GridSingle}

\* the size of the player and the enemies, and a body as large as a tile
BodySizes == {<<8, 15>>, <<16, 16>>}

\* (0, 0), (4.5, 1), (-5.5, 0), (20, 3) and (-34, 0); the third and the
\* fourth lie in a solid tile, the last has no tile in the cells around it
BodyPositions ==
    {<<FInt(0), FInt(0)>>, <<F4_5, FInt(1)>>,
     <<Flt(TRUE, Mag(5, Pow2(27), 0)), FInt(0)>>, <<FInt(20), FInt(3)>>,
     <<FInt(-34), FInt(0)>>}

BodyVelocities ==
    {<<FInt(0), FInt(0)>>, <<FInt(5), FInt(0)>>, <<FInt(-5), FInt(0)>>,
     <<FInt(0), FInt(5)>>, <<FInt(1), FInt(-3)>>, <<FInt(32), FInt(0)>>}

\* the movement the game passes: (movement[1] - movement[0]) * 2, 0
Movements == {<<FInt(0), FInt(0)>>, <<FInt(2), FInt(0)>>, <<FInt(-2), FInt(0)>>}

NoCall == [self |-> PhysicsEntity("none", <<FZero, FZero>>, <<0, 0>>), movement |-> <<FZero, FZero>>]

InitBodies ==
    /\ prog = "bodies"
    /\ tilemap \in BodyGrids
    /\ tile_size = DefaultTileSize
    /\ offgrid_tiles = << >>
    /\ disk = [path \in {EditorPath, LevelPath(0)} |-> NoFile]
    /\ saved = Snapshot(<< >>, DefaultTileSize, << >>)
    /\ matches = << >>
    /\ query = NoQuery
    /\ err = NoError
    /\ op = "init"
    /\ steps = 0
    /\ game = NewGame
    /\ \E p \in BodyPositions, size \in BodySizes, v \in BodyVelocities :
          ent = [PhysicsEntity("enemy", p, size) EXCEPT !.velocity = v]
    /\ args = NoCall
    /\ calm = -1

\* a call of PhysicsEntity.Update
EntityUpdate(movement) ==
    /\ prog = "bodies" /\ steps < MaxUpdates
    /\ ent' = PhysicsUpdate(ent, tilemap, tile_size, movement)
    /\ args' = [self |-> ent, movement |-> movement]
    /\ op' = "Update" /\ steps' = steps + 1
    /\ UNCHANGED <<prog, tilemap, tile_size, offgrid_tiles, disk, saved, matches, query,
                   err, game, calm>>

NextBodies == \E movement \in Movements : EntityUpdate(movement)

SpecBodies == InitBodies /\ [][NextBodies]_vars

\* ------------------------------------------------------------------------
\* the specification of a run: the player and an enemy body, from their
\* constructors on, updated frame after frame
\* ------------------------------------------------------------------------

\* frames of a run
RunFrames == 60

\* the frames in which keys are pressed; later frames pass no movement
InputFrames == 2

\* a wall right of the start and nothing below
GridShaft ==
    GridOf(<<GridTile("stone", 0, 1, 0), GridTile("stone", 0, 1, 1),
             GridTile("stone", 0, 1, 2)>>)

\* a floor below the start
GridFloor ==
    GridOf(<<GridTile("grass", 1, 0, 2), GridTile("grass", 1, 1, 2),
             GridTile("grass", 1, -1, 2)>>)

RunGrids == {GridShaft, GridFloor}

RunBodies ==
    {Player(<<FInt(7), FInt(0)>>, PlayerSize),
     PhysicsEntity("enemy", <<FInt(7), FInt(0)>>, PlayerSize)}

InitRun ==
    /\ prog = "run"
    /\ tilemap \in RunGrids
    /\ tile_size = DefaultTileSize
    /\ offgrid_tiles = << >>
    /\ disk = [path \in {EditorPath, LevelPath(0)} |-> NoFile]
    /\ saved = Snapshot(<< >>, DefaultTileSize, << >>)
    /\ matches = << >>
    /\ query = NoQuery
    /\ err = NoError
    /\ op = "init"
    /\ steps = 0
    /\ game = NewGame
    /\ ent \in RunBodies
    /\ args = NoCall
    /\ calm = 0

\* the count of Updates in a row that pass no horizontal movement and meet
\* no vertical collision, from velocity.y = 0 on; other is TRUE when
\* something else than PhysicsEntity.Update wrote velocity.y in the frame
Calm(n, movement, after, other) ==
    IF after.velocity[2] = FZero THEN 0
    ELSE IF n >= 0 /\ movement[1] = FZero /\ ~other
              /\ ~after.collisions.down /\ ~after.collisions.up
    THEN n + 1
    ELSE -1

FrameMovements(n) == IF n < InputFrames THEN Movements ELSE {<<FZero, FZero>>}

\* a frame of a body that is no player: PhysicsEntity.Update
BodyFrame(movement) ==
    /\ prog = "run" /\ steps < RunFrames /\ ent.type # "player"
    /\ movement \in FrameMovements(steps)
    /\ ent' = PhysicsUpdate(ent, tilemap, tile_size, movement)
    /\ calm' = Calm(calm, movement, ent', FALSE)
    /\ args' = [self |-> ent, movement |-> movement]
    /\ op' = "Update" /\ steps' = steps + 1
    /\ UNCHANGED <<prog, tilemap, tile_size, offgrid_tiles, disk, saved, matches, query,
                   err, game>>

\* the states of the keys left and right, as Game.movement holds them
Holds == {<<FALSE, FALSE>>, <<TRUE, FALSE>>, <<FALSE, TRUE>>}

\* ((self.movement[1] - self.movement[0]) * 2, 0)
HeldMovement(keys) ==
    <<FInt(((IF keys[2] THEN 1 ELSE 0) - (IF keys[1] THEN 1 ELSE 0)) * 2), FInt(0)>>

\* a frame of the player: the key events of the frame set Game.movement
\* (after the input frames the keys stay as they are), then Game.Run calls
\* Player.Update
PlayerFrame(keys) ==
    /\ prog = "run" /\ steps < RunFrames /\ ent.type = "player"
    /\ keys \in (IF steps < InputFrames THEN Holds ELSE {game.movement})
    /\ LET r == PlayerUpdate(ent, game, tilemap, tile_size, HeldMovement(keys))
       IN  /\ ent' = r.e
           /\ game' = [r.g EXCEPT !.movement = keys]
           /\ calm' = Calm(calm, HeldMovement(keys), r.e, r.e.wall_slide)
    /\ args' = [self |-> ent, movement |-> HeldMovement(keys)]
    /\ op' = "PlayerUpdate" /\ steps' = steps + 1
    /\ UNCHANGED <<prog, tilemap, tile_size, offgrid_tiles, disk, saved, matches, query, err>>

\* Game.Run, KEYDOWN of K_UP: Player.Jump; the key is pressed in the input
\* frames, or once in a frame in which the player slides down a wall
PlayerJump ==
    /\ prog = "run" /\ steps < RunFrames /\ ent.type = "player"
    /\ steps < InputFrames \/ (ent.wall_slide /\ op # "Jump")
    /\ ent' = Jump(ent).e
    /\ calm' = IF ent'.velocity[2] = ent.velocity[2] THEN calm ELSE -1
    /\ args' = [self |-> ent, movement |-> <<FZero, FZero>>]
    /\ op' = "Jump" /\ steps' = steps + 1
    /\ UNCHANGED <<prog, tilemap, tile_size, offgrid_tiles, disk, saved, matches, query,
                   err, game>>

\* Game.Run, KEYDOWN of K_x: Player.Dash
PlayerDash ==
    /\ prog = "run" /\ steps < InputFrames /\ ent.type = "player"
    /\ ent' = Dash(ent)
    /\ args' = [self |-> ent, movement |-> <<FZero, FZero>>]
    /\ op' = "Dash" /\ steps' = steps + 1
    /\ UNCHANGED <<prog, tilemap, tile_size, offgrid_tiles, disk, saved, matches, query,
                   err, game, calm>>

NextRun ==
    \/ \E movement \in Movements : BodyFrame(movement)
    \/ \E keys \in Holds : PlayerFrame(keys)
    \/ PlayerJump
    \/ PlayerDash

SpecRun == InitRun /\ [][NextRun]_vars

\* ------------------------------------------------------------------------
\* the specification of AutoTile: the editor on a loaded map, key t
\* ------------------------------------------------------------------------

\* how many times key t is pressed
MaxAutoTiles == 2

\* the cells of the maps: a cell, its four axis neighbours and one corner
Cells == {<<0, 0>>, <<1, 0>>, <<-1, 0>>, <<0, -1>>, <<0, 1>>, <<1, 1>>}

\* what a cell of a map holds; the corner holds grass or nothing
CellTypes(c) == IF c = <<1, 1>> THEN {"none", "grass"} ELSE {"none", "grass", "stone", "decor"}

\* the orders in which the entries of a map stand in its file
CellOrders ==
    {<<<<0, 0>>, <<1, 0>>, <<-1, 0>>, <<0, -1>>, <<0, 1>>, <<1, 1>>>>,
     <<<<1, 1>>, <<0, 1>>, <<0, -1>>, <<-1, 0>>, <<1, 0>>, <<0, 0>>>>,
     <<<<0, -1>>, <<-1, 0>>, <<0, 0>>, <<1, 1>>, <<1, 0>>, <<0, 1>>>>}

\* the variant the tiles of a map have when it is loaded
StartVariants == {1, 8}

\* the grid json.load builds from a file that lists, in the given order, the
\* cells that hold a tile
GridInOrder(order, types, variant) ==
    Only({GridOf([k \in DOMAIN held |->
                     GridTile(types[held[k]], variant, held[k][1], held[k][2])])
          : held \in {SelectSeq(order, LAMBDA c : types[c] # "none")}})

\* the editor after it loaded a map (Editor.__init__)
InitAutoTile ==
    /\ prog = "editor"
    /\ \E order \in CellOrders, variant \in StartVariants :
          \E types \in [Cells -> {"none", "grass", "stone", "decor"}] :
              /\ \A c \in Cells : types[c] \in CellTypes(c)
              /\ tilemap = GridInOrder(order, types, variant)
    /\ tile_size = DefaultTileSize
    /\ offgrid_tiles = << >>
    /\ disk = [path \in {EditorPath, LevelPath(0)} |-> NoFile]
    /\ saved = Snapshot(<< >>, DefaultTileSize, << >>)
    /\ matches = << >>
    /\ query = NoQuery
    /\ err = NoError
    /\ op = "init"
    /\ steps = 0
    /\ game = NewGame
    /\ ent = Player(<<FInt(50), FInt(50)>>, PlayerSize)
    /\ args = [tilemap |-> << >>]
    /\ calm = -1

\* Editor.Run, key t: self.tilemap.AutoTile()
EditorAutoTile ==
    /\ prog = "editor" /\ steps < MaxAutoTiles
    /\ tilemap' = AutoTile(tilemap)
    /\ args' = [tilemap |-> tilemap]
    /\ err' = NoError
    /\ op' = "AutoTile" /\ steps' = steps + 1
    /\ UNCHANGED <<prog, tile_size, offgrid_tiles, disk, saved, matches, query, game, ent,
                   calm>>

NextAutoTile == EditorAutoTile

SpecAutoTile == InitAutoTile /\ [][NextAutoTile]_vars

\* ------------------------------------------------------------------------
\* the specification of the grid under all its writers: the editor with
\* placement, removal and key t, and the game with Extract
\* ------------------------------------------------------------------------

\* no editor file yet, and the level without spawners
InitGrid == InitWith({File(LevelPlain)})

NextGrid == NextEditor \/ NextGame \/ EditorAutoTile

SpecGrid == InitGrid /\ [][NextGrid]_vars

\* ------------------------------------------------------------------------
\* the game loop: the frames of Game.Run on two levels
\* ------------------------------------------------------------------------

\* frames of the loop
LoopFrames == 400

\* the frames in which a draw of random.random() may fall below 0.01
DrawFrames == 2

\* what random.randint(30, 120) returns
WalkTimes == {30, 45}

\* the frames in which the key x goes down
DashFrames == {20, 21, 60, 80, 81}

\* the frames in which the key f goes down
ParryFrames == {70}

\* the frames in which the key left goes down
TurnFrames == {18}

Min(a, b) == IF b < a THEN b ELSE a

\* a floor of seven tiles
LoopFloor ==
    GridOf(<<GridTile("grass", 1, -3, 1), GridTile("grass", 1, -2, 1),
             GridTile("grass", 1, -1, 1), GridTile("grass", 1, 0, 1), GridTile("grass", 1, 1, 1),
             GridTile("grass", 1, 2, 1), GridTile("grass", 1, 3, 1)>>)

\* the first level: the player and, at the right end of the floor, an enemy
LevelOne ==
    SaveDoc(LoopFloor, 16,
            <<Decoration("spawners", 0, -73, 2), Decoration("spawners", 1, 108, 2)>>)

\* the second level: the player alone
LevelTwo == SaveDoc(LoopFloor, 16, <<Decoration("spawners", 0, 60, 2)>>)

\* the file at a path; the directory has no file of another name
FileAt(files, path) == IF path \in DOMAIN files THEN files[path] ELSE NoFile

\* len(os.listdir('data/maps'))
MapCount(files) == Cardinality({path \in DOMAIN files : files[path].exists})

\* what a frame works on: the game, the player and the tilemap, the
\* exception that ends the frame, the levels Load_Level was called with,
\* the hits of projectiles on the player, the projectiles that met a
\* dashing player and the Enemy.Update calls
World(g, e, tm, ts, off) ==
    [g |-> g, e |-> e, tilemap |-> tm, tile_size |-> ts, offgrid |-> off, err |-> NoError,
     loaded |-> << >>, hits |-> 0, spared |-> 0, updated |-> FALSE, dashing |-> e.dashing,
     calls |-> << >>]

\* self.Load_Level(self.level) in a frame
Reload(w, files) ==
    Only({[w EXCEPT !.g = r.g, !.e = r.e, !.tilemap = r.tilemap, !.tile_size = r.tile_size,
                    !.offgrid = r.offgrid, !.err = r.err, !.loaded = Append(@, w.g.level)]
          : r \in {Load_Level(w.g, w.e, FileAt(files, LevelPath(w.g.level)),
                              w.tilemap, w.tile_size, w.offgrid)}})

\* a variant of the start of the frame that counts the level up without
\* the cap at the last file
AdvanceUncapped(w, files) ==
    LET g1 == [w.g EXCEPT !.screenshake = Max(0, @ - 1)]
        g2 == [g1 EXCEPT !.transition = @ + 1]
    IN  IF Len(g1.enemies) # 0 THEN [w EXCEPT !.g = g1]
        ELSE IF g2.transition > 30
        THEN Reload([w EXCEPT !.g = [g2 EXCEPT !.level = @ + 1]], files)
        ELSE [w EXCEPT !.g = g2]

\* the start of the frame: the screenshake, and the transition to the
\* next level once no enemy is left
Advance(w, files) ==
    LET g1 == [w.g EXCEPT !.screenshake = Max(0, @ - 1)]
        g2 == [g1 EXCEPT !.transition = @ + 1]
    IN  IF Len(g1.enemies) # 0 THEN [w EXCEPT !.g = g1]
        ELSE IF g2.transition > 30
        THEN Reload([w EXCEPT !.g = [g2 EXCEPT !.level = Min(@ + 1, MapCount(files) - 1)]],
                    files)
        ELSE [w EXCEPT !.g = g2]

\* if self.transition < 0: self.transition += 1
Fade(w) == IF w.g.transition < 0 THEN [w EXCEPT !.g.transition = @ + 1] ELSE w

\* the death timer
Dying(w, files) ==
    IF w.g.dead = 0 THEN w
    ELSE LET g1 == [w.g EXCEPT !.dead = @ + 1]
             g2 == [g1 EXCEPT !.transition = IF g1.dead >= 10 THEN Min(30, @ + 1) ELSE @]
         IN  IF g1.dead > 40 THEN Reload([w EXCEPT !.g = g2], files) ELSE [w EXCEPT !.g = g2]

\* the counters of the frame, up to the first exception
Timers(w, files) ==
    Only({IF a.err # NoError THEN a ELSE Dying(Fade(a), files) : a \in {Advance(w, files)}})

\* the player of the frame: Player.Update unless the player is dead
Alive(st, tm, ts) ==
    IF st.g.dead = 0
    THEN PlayerUpdate(st.e, st.g, tm, ts, HeldMovement(st.g.movement))
    ELSE [e |-> st.e, g |-> st.g]

\* the enemies, the player and the projectiles of the frame
Bodies(w, walks) ==
    Only({Only({Only({[w EXCEPT !.g = [pu.g EXCEPT !.enemies = en.kept,
                                                    !.projectiles = pj.kept,
                                                    !.dead = pj.dead,
                                                    !.screenshake = pj.screenshake],
                                !.e = pu.e, !.hits = pj.hits, !.spared = pj.spared,
                                !.updated = en.g.dead = 0, !.dashing = pu.e.dashing,
                                !.calls = en.calls]
                      : pj \in {UpdateProjectiles(pu.g.projectiles, 1, pu.e,
                                                  w.tilemap, w.tile_size,
                                                  [kept |-> << >>, dead |-> pu.g.dead,
                                                   screenshake |-> pu.g.screenshake,
                                                   hits |-> 0, spared |-> 0])}})
                : pu \in {Alive(en, w.tilemap, w.tile_size)}})
          : en \in {UpdateEnemies(w.g.enemies, 1, walks, w.tilemap, w.tile_size,
                                  [kept |-> << >>, g |-> w.g, e |-> w.e, calls |-> << >>])}})

\* the key events of a frame: none, x down, f down, left down, or left up
\* in the frame after it went down
Keys(n) ==
    {"none"} \cup (IF n + 1 \in DashFrames THEN {"x"} ELSE {})
             \cup (IF n + 1 \in ParryFrames THEN {"f"} ELSE {})
             \cup (IF n + 1 \in TurnFrames THEN {"left"} ELSE {})
             \cup (IF n \in TurnFrames THEN {"left up"} ELSE {})

\* the draws of a frame
WalkDraws(n) == IF n < DrawFrames THEN {0} \cup WalkTimes ELSE {0}

\* the KEYDOWN and KEYUP events of the frame
Pressed(w, key) ==
    IF key = "x" THEN [w EXCEPT !.e = Dash(@)]
    ELSE IF key = "f" THEN [w EXCEPT !.e = Parry(@)]
    ELSE IF key = "left" THEN [w EXCEPT !.g.movement[1] = TRUE]
    ELSE IF key = "left up" THEN [w EXCEPT !.g.movement[1] = FALSE]
    ELSE w

\* what is known of the run after a frame: the frame's own record (the
\* dash counter at its start and when its events begin) and the counters
\* it started with; the level at which the player died and the
\* frames since (-1 while alive), before the frame (was) and after it;
\* the Player.Update calls and the bursts of 20 particles since the last
\* Dash that had an effect (-1 before the first), at such a Dash the calls
\* since the one before (gap), and in the frame whose Player.Update takes
\* the dash counter to 0 the bursts of that dash (ended); the projectiles
\* the frame started with (flying)
Seen(old, g, e, w, key) ==
    LET dashed == key = "x" /\ w.e.dashing = 0
        burst  == IF w.updated /\ w.g.spawned >= 20 THEN 1 ELSE 0
        upd    == IF w.updated THEN 1 ELSE 0
        total  == IF old.since < 0 THEN 0 ELSE old.bursts + burst
    IN  [loaded |-> w.loaded, hits |-> w.hits, spared |-> w.spared, updated |-> w.updated,
         calls |-> w.calls, flying |-> g.projectiles, key |-> key, start |-> e.dashing, dashing |-> w.dashing, level |-> g.level, enemies |-> Len(g.enemies),
         transition |-> g.transition, dead |-> g.dead, dashed |-> dashed,
         gap |-> IF dashed /\ old.since >= 0 THEN old.since + upd ELSE -1,
         since |-> IF dashed THEN 0 ELSE IF old.since < 0 THEN -1 ELSE old.since + upd,
         bursts |-> IF dashed THEN 0 ELSE total,
         ended |-> IF w.updated /\ e.dashing # 0 /\ w.dashing = 0 THEN total ELSE -1,
         was |-> old.died,
         died |-> IF w.g.dead = 0 THEN -1
                  ELSE IF g.dead = 0 \/ w.loaded # << >> THEN w.g.level ELSE old.died,
         waited |-> IF w.g.dead = 0 THEN -1
                    ELSE IF g.dead = 0 \/ w.loaded # << >> THEN 0 ELSE old.waited + 1]

NoFrame ==
    [loaded |-> << >>, hits |-> 0, spared |-> 0, updated |-> FALSE, calls |-> << >>,
     flying |-> << >>, key |-> "none",
     start |-> 0, dashing |-> 0,
     level |-> 0, enemies |-> 0, transition |-> 0, dead |-> 0, dashed |-> FALSE,
     gap |-> -1, since |-> -1, bursts |-> 0, ended |-> -1, was |-> -1, died |-> -1, waited |-> -1]

\* Game.__init__ on a directory of two levels, with or without the file of
\* the editor
InitLoop ==
    /\ prog = "play"
    /\ \E f \in {NoFile, File(LevelPlain)} :
          disk = [path \in {EditorPath, LevelPath(0), LevelPath(1)} |->
                     IF path = EditorPath THEN f
                     ELSE IF path = LevelPath(0) THEN File(LevelOne) ELSE File(LevelTwo)]
    /\ LET r == Load_Level(NewGame, Player(<<FInt(50), FInt(50)>>, PlayerSize),
                           disk[LevelPath(0)], << >>, DefaultTileSize, << >>)
       IN  /\ tilemap = r.tilemap
           /\ tile_size = r.tile_size
           /\ offgrid_tiles = r.offgrid
           /\ game = r.g
           /\ ent = r.e
    /\ saved = Snapshot(<< >>, DefaultTileSize, << >>)
    /\ matches = << >>
    /\ query = NoQuery
    /\ err = NoError
    /\ op = "Load_Level"
    /\ steps = 0
    /\ args = NoFrame
    /\ calm = -1

\* a frame of Game.Run: the counters, the bodies, the events
GameFrame(key) ==
    /\ prog = "play" /\ steps < LoopFrames
    /\ key \in Keys(steps)
    /\ \E t \in {Timers(World(game, ent, tilemap, tile_size, offgrid_tiles), disk)} :
       \E walks \in [1..Len(t.g.enemies) -> WalkDraws(steps)] :
       \E b \in {IF t.err # NoError THEN t ELSE Bodies(t, walks)} :
       \E w \in {IF b.err # NoError THEN b ELSE Pressed(b, key)} :
              /\ game' = w.g
              /\ ent' = w.e
              /\ tilemap' = w.tilemap
              /\ tile_size' = w.tile_size
              /\ offgrid_tiles' = w.offgrid
              /\ err' = w.err
              /\ prog' = IF w.err = NoError THEN "play" ELSE "crashed"
              /\ args' = Seen(args, game, ent, b, key)
    /\ op' = "Frame" /\ steps' = steps + 1
    /\ UNCHANGED <<disk, saved, matches, query, calm>>

NextLoop == \E key \in {"none", "x", "f", "left", "left up"} : GameFrame(key)

SpecLoop == InitLoop /\ [][NextLoop]_vars

\* ------------------------------------------------------------------------
\* Utilities.py: Animation; Entities.py: Set_Action; Particle.py: the
\* animations of the entities and particles over the frames of Game.Run
\* ------------------------------------------------------------------------

\* frames of the animation run
AnimFrames == 13

\* the most images a folder of the assets holds
MaxImages == 2

\* the most particles alive
MaxParticles == 2

\* the frames in which particles are made
SpawnFrames == {0}

\* the frames in which an Update may pass another action than the last
ActionFrames == {0, 1}

\* Animation.__init__
Animation(images, image_duration, loop) ==
    [images |-> images, loop |-> loop, image_duration |-> image_duration,
     done |-> FALSE, frame |-> 0]

\* a variant of Animation.Update that counts on past the last frame
AnimationUpdateOn(a) == [a EXCEPT !.frame = @ + 1]

\* Animation.Update
AnimationUpdate(a) ==
    LET total == a.image_duration * Len(a.images)
    IN  IF a.loop THEN [a EXCEPT !.frame = (@ + 1) % total]
        ELSE LET frame == Min(a.frame + 1, total - 1)
             IN  [a EXCEPT !.frame = frame, !.done = (frame >= total - 1) \/ @]

\* Animation.Image: the index int(self.frame / self.image_duration) into
\* images and the exception of the subscript
Image(a) ==
    LET index == a.frame \div a.image_duration
    IN  IF index < Len(a.images) THEN [err |-> NoError, image |-> a.images[index + 1]]
        ELSE [err |-> "IndexError", image |-> 0]

\* the Animation objects of the program: a heap from references to
\* objects; a new object gets the least reference not in use
Alloc(heap) == CHOOSE r \in 1..(Cardinality(DOMAIN heap) + 1) : r \notin DOMAIN heap

\* a variant of Animation.Copy that returns the Animation itself
CopyAliased(heap, ref) == [heap |-> heap, ref |-> ref]

\* Animation.Copy: a new Animation on the same list of images
Copy(heap, ref) ==
    LET new == Alloc(heap)
        made == Animation(heap[ref].images, heap[ref].image_duration, heap[ref].loop)
    IN  [heap |-> [r \in DOMAIN heap \cup {new} |-> IF r = new THEN made ELSE heap[r]],
         ref |-> new]

\* the keys of Game.assets that hold an Animation, with image_duration and loop
AssetTable ==
    [key \in {"player/idle", "player/run", "player/jump", "player/slide",
              "player/wall_slide", "enemy/idle", "enemy/run", "particle/leaf",
              "particle/particle"} |->
        IF key \in {"player/idle", "enemy/idle"} THEN [image_duration |-> 6, loop |-> TRUE]
        ELSE IF key \in {"player/run", "enemy/run"} THEN [image_duration |-> 4, loop |-> TRUE]
        ELSE IF key = "particle/leaf" THEN [image_duration |-> 20, loop |-> FALSE]
        ELSE IF key = "particle/particle" THEN [image_duration |-> 6, loop |-> FALSE]
        ELSE [image_duration |-> 5, loop |-> TRUE]]

\* the references of the assets, in the order Game.__init__ builds them
AssetOrder ==
    <<"player/idle", "player/run", "player/jump", "player/slide", "player/wall_slide",
      "enemy/idle", "enemy/run", "particle/leaf", "particle/particle">>

\* Game.assets over folders of n images each
Assets(n) ==
    [heap |-> [r \in DOMAIN AssetOrder |->
                  Animation([k \in 1..n |-> k], AssetTable[AssetOrder[r]].image_duration,
                            AssetTable[AssetOrder[r]].loop)],
     assets |-> [key \in DOMAIN AssetTable |->
                    CHOOSE r \in DOMAIN AssetOrder : AssetOrder[r] = key]]

\* PhysicsEntity.Set_Action
Set_Action(heap, assets, e, action) ==
    IF action # e.action
    THEN Only({[heap |-> c.heap, e |-> [e EXCEPT !.action = action, !.animation = c.ref]]
               : c \in {Copy(heap, assets[e.type \o "/" \o action])}})
    ELSE [heap |-> heap, e |-> e]

\* what PhysicsEntity.__init__ does for the animation: action = '', Set_Action('idle')
Animated(heap, assets, type) ==
    Set_Action(heap, assets, [type |-> type, action |-> "", animation |-> 0], "idle")

\* Particle.__init__
Particle(heap, assets, type, frame) ==
    Only({[heap |-> [c.heap EXCEPT ![c.ref].frame = frame],
           p |-> [type |-> type, animation |-> c.ref, start |-> frame]]
          : c \in {Copy(heap, assets["particle/" \o type])}})

\* the Animation objects something still refers to
Live(g, heap) ==
    [r \in {g.assets[key] : key \in DOMAIN g.assets}
           \cup {g.player.animation, g.enemy.animation}
           \cup {g.particles[k].animation : k \in DOMAIN g.particles} |-> heap[r]]

\* the actions an Update passes to Set_Action
EnemyActions == {"idle", "run"}

PlayerActions == {"idle", "run", "jump", "wall_slide"}

\* random.randint(0, 20) of a leaf and random.randint(0, 7) of a particle
StartFrames(type) == IF type = "leaf" THEN {20} ELSE {0, 7}

NoAnim == [self |-> 0, heap |-> << >>, before |-> Animation(<<1>>, 1, TRUE),
           updated |-> Animation(<<1>>, 1, TRUE), action |-> "", was |-> "", kill |-> FALSE,
           image |-> 0]

\* Game.__init__ and Load_Level: the assets, the player and an enemy
InitAnim ==
    /\ prog = "anim"
    /\ tilemap = << >>
    /\ tile_size = DefaultTileSize
    /\ offgrid_tiles = << >>
    /\ disk = [path \in {EditorPath, LevelPath(0)} |-> NoFile]
    /\ saved = Snapshot(<< >>, DefaultTileSize, << >>)
    /\ matches = << >>
    /\ query = NoQuery
    /\ err = NoError
    /\ op = "init"
    /\ steps = 0
    /\ \E n \in 1..MaxImages :
       \E a \in {Assets(n)} :
       \E pl \in {Animated(a.heap, a.assets, "player")} :
       \E en \in {Animated(pl.heap, a.assets, "enemy")} :
          game = [assets |-> a.assets, heap |-> en.heap, player |-> pl.e, enemy |-> en.e,
                  particles |-> << >>, pc |-> "enemy", k |-> 1, frame |-> 0]
    /\ ent = NoCall.self
    /\ args = NoAnim
    /\ calm = 0

\* the end of a step of the frame: the objects nothing refers to are gone
Collected(g) == [g EXCEPT !.heap = Live(g, g.heap)]

\* after the player, or after a particle: the next particle of the copy of
\* the list, or the next frame
Onward(g, k) ==
    IF k <= Len(g.particles) THEN [g EXCEPT !.pc = "particles", !.k = k]
    ELSE [g EXCEPT !.pc = "enemy", !.k = 1, !.frame = @ + 1]

\* Game.Run, a particle is made: Particle.__init__ and particles.append
NewParticle(type, frame) ==
    /\ prog = "anim" /\ game.frame \in SpawnFrames /\ game.pc = "enemy"
    /\ Len(game.particles) < MaxParticles
    /\ frame \in StartFrames(type)
    /\ \E r \in {Particle(game.heap, game.assets, type, frame)} :
          /\ game' = Collected([game EXCEPT !.heap = r.heap, !.particles = Append(@, r.p)])
          /\ args' = [NoAnim EXCEPT !.self = r.p.animation, !.heap = game.heap]
    /\ op' = "Particle" /\ steps' = steps + 1
    /\ UNCHANGED <<prog, tilemap, tile_size, offgrid_tiles, disk, saved, matches, query,
                   err, ent, calm>>

\* what Update and Render of an entity do with its animation:
\* animation.Update() at the end of PhysicsEntity.Update, Set_Action(action)
\* after it, animation.Image() in Render
Animate(g, e, action) ==
    Only({Only({[heap |-> s.heap, e |-> s.e, updated |-> u[e.animation],
                 image |-> Image(s.heap[s.e.animation])]
                : s \in {Set_Action(u, g.assets, e, action)}})
          : u \in {[g.heap EXCEPT ![e.animation] = AnimationUpdate(@)]}})

\* Game.Run: Enemy.Update and Enemy.Render
EnemyAnimate(action) ==
    /\ prog = "anim" /\ game.frame < AnimFrames /\ game.pc = "enemy"
    /\ action \in (IF game.frame \in ActionFrames THEN EnemyActions ELSE {game.enemy.action})
    /\ \E r \in {Animate(game, game.enemy, action)} :
          /\ game' = Collected([game EXCEPT !.heap = r.heap, !.enemy = r.e, !.pc = "player"])
          /\ args' = [NoAnim EXCEPT !.self = game.enemy.animation, !.heap = game.heap,
                                    !.before = game.heap[game.enemy.animation],
                                    !.updated = r.updated, !.action = action,
                                    !.was = game.enemy.action, !.image = r.image.image]
          /\ err' = r.image.err
          /\ prog' = IF r.image.err = NoError THEN "anim" ELSE "crashed"
    /\ op' = "Enemy.Update" /\ steps' = steps + 1
    /\ UNCHANGED <<tilemap, tile_size, offgrid_tiles, disk, saved, matches, query, ent, calm>>

\* Game.Run: Player.Update and Player.Render
PlayerAnimate(action) ==
    /\ prog = "anim" /\ game.pc = "player"
    /\ action \in (IF game.frame \in ActionFrames THEN PlayerActions ELSE {game.player.action})
    /\ \E r \in {Animate(game, game.player, action)} :
          /\ game' = Collected(Onward([game EXCEPT !.heap = r.heap, !.player = r.e], 1))
          /\ args' = [NoAnim EXCEPT !.self = game.player.animation, !.heap = game.heap,
                                    !.before = game.heap[game.player.animation],
                                    !.updated = r.updated, !.action = action,
                                    !.was = game.player.action, !.image = r.image.image]
          /\ err' = r.image.err
          /\ prog' = IF r.image.err = NoError THEN "anim" ELSE "crashed"
    /\ op' = "Player.Update" /\ steps' = steps + 1
    /\ UNCHANGED <<tilemap, tile_size, offgrid_tiles, disk, saved, matches, query, ent, calm>>

\* Game.Run, the loop over a copy of the particles: Particle.Update,
\* Particle.Render, and particles.remove when Update returned True
ParticleAnimate ==
    /\ prog = "anim" /\ game.pc = "particles"
    /\ \E p \in {game.particles[game.k]} :
       \E kill \in {game.heap[p.animation].done} :
       \E u \in {[game.heap EXCEPT ![p.animation] = AnimationUpdate(@)]} :
       \E image \in {Image(u[p.animation])} :
          /\ game' = Collected(
                        IF kill
                        THEN Onward([game EXCEPT !.heap = u,
                                        !.particles = [j \in 1..(Len(@) - 1) |->
                                                          IF j < game.k THEN @[j] ELSE @[j + 1]]],
                                    game.k)
                        ELSE Onward([game EXCEPT !.heap = u], game.k + 1))
          /\ args' = [NoAnim EXCEPT !.self = p.animation, !.heap = game.heap,
                                    !.before = game.heap[p.animation],
                                    !.updated = u[p.animation], !.kill = kill,
                                    !.image = image.image]
          /\ err' = image.err
          /\ prog' = IF image.err = NoError THEN "anim" ELSE "crashed"
    /\ op' = "Particle.Update" /\ steps' = steps + 1
    /\ UNCHANGED <<tilemap, tile_size, offgrid_tiles, disk, saved, matches, query, ent, calm>>

NextAnim ==
    \/ \E type \in {"leaf", "particle"} : \E frame \in 0..20 : NewParticle(type, frame)
    \/ \E action \in EnemyActions : EnemyAnimate(action)
    \/ \E action \in PlayerActions : PlayerAnimate(action)
    \/ ParticleAnimate

SpecAnim == InitAnim /\ [][NextAnim]_vars

\* ------------------------------------------------------------------------
\* properties of Extract and of the spatial queries
\* ------------------------------------------------------------------------

IdOf(tile) == <<tile.type, tile.variant>>

Matching(list, id_pairs) == SelectSeq(list, LAMBDA t : IdOf(t) \in id_pairs)

Others(list, id_pairs) == SelectSeq(list, LAMBDA t : IdOf(t) \notin id_pairs)

GridTiles(tm) == [k \in DOMAIN tm |-> tm[k].val]

\* C3: a call Extract(id_pairs, keep=False) returns; afterwards no record
\* whose (type, variant) is in id_pairs is left in the grid or among the
\* decorations, every other record is still there, and the returned list
\* holds one copy of each record that matched.
C3_ExtractRemovesMatches ==
    [][(op' = "Extract" /\ steps' = steps + 1) =>
          /\ err' = NoError
          /\ Matching(GridTiles(tilemap'), args'.id_pairs) = << >>
          /\ Matching(offgrid_tiles', args'.id_pairs) = << >>
          /\ GridTiles(tilemap') = Others(GridTiles(tilemap), args'.id_pairs)
          /\ offgrid_tiles' = Others(offgrid_tiles, args'.id_pairs)
          /\ [k \in DOMAIN matches' |-> IdOf(matches'[k])]
               = [k \in 1..(Len(Matching(offgrid_tiles, args'.id_pairs))
                            + Len(Matching(GridTiles(tilemap), args'.id_pairs))) |->
                     IdOf((Matching(offgrid_tiles, args'.id_pairs)
                           \o Matching(GridTiles(tilemap), args'.id_pairs))[k])]]_vars

\* C4: Extract (keep true or false), Tiles_Around, Physics_Rects_Around and
\* Solid_Check raise no exception, whatever the tilemap holds and whatever
\* they are asked.
C4_QueriesNeverRaise ==
    op \in {"Extract", "ExtractKeep", "Query"} => err = NoError

\* ------------------------------------------------------------------------
\* properties of Save and Load
\* ------------------------------------------------------------------------

\* a record without the container type of its pos
Plain(tile) == [type |-> tile.type, variant |-> tile.variant, pos |-> tile.pos]

SameMap(a, b) ==
    /\ a.tile_size = b.tile_size
    /\ {[key |-> a.tilemap[k].key, val |-> Plain(a.tilemap[k].val)] : k \in DOMAIN a.tilemap}
         = {[key |-> b.tilemap[k].key, val |-> Plain(b.tilemap[k].val)] : k \in DOMAIN b.tilemap}
    /\ Len(a.tilemap) = Len(b.tilemap)
    /\ [k \in DOMAIN a.offgrid |-> Plain(a.offgrid[k])]
         = [k \in DOMAIN b.offgrid |-> Plain(b.offgrid[k])]

\* C5: when the editor starts on the file a Save wrote, Load gives back the
\* grid (as a set of entries), the tile size and the decorations (in their
\* order) the tilemap held at that Save, the grid coordinates still ints and
\* the decoration positions the same floats.
C5_RoundTrip ==
    (op = "StartEditor" /\ disk[EditorPath].exists) =>
        /\ prog = "editor"
        /\ SameMap(Snapshot(tilemap, tile_size, offgrid_tiles), saved)
        /\ \A k \in DOMAIN tilemap : tilemap[k].val.pos[1].int /\ tilemap[k].val.pos[2].int

\* the editor has reloaded a saved map that holds a grid tile at a negative
\* coordinate and a decoration
C5_Witness ==
    /\ op = "StartEditor" /\ disk[EditorPath].exists
    /\ \E k \in DOMAIN tilemap : TileX(tilemap[k].val) < 0
    /\ \E k \in DOMAIN offgrid_tiles : ~FIsInt(offgrid_tiles[k].pos[1].f)

\* C6: a Load that fails with KeyError on a document lacking a field leaves
\* grid, tile size and decorations as they were before the call.
C6_FailedLoadChangesNothing ==
    [][(op' \in {"StartEditor", "Load_Level"} /\ err' = "KeyError") =>
          UNCHANGED tileVars]_vars

\* C7: a Load of a missing file leaves the tilemap as it was, and its caller
\* (the editor at start-up, Load_Level in the game) goes on with the empty
\* map instead of ending the program.
C7_MissingFileIsSurvived ==
    [][(\/ op' = "StartEditor" /\ prog = "none" /\ ~disk[EditorPath].exists
        \/ op' = "Load_Level" /\ prog = "none" /\ ~disk[LevelPath(0)].exists) =>
          /\ UNCHANGED tileVars
          /\ prog' # "crashed"]_vars

\* ------------------------------------------------------------------------
\* properties of PhysicsEntity.Update
\* ------------------------------------------------------------------------

\* the rect of a grid tile
TileRect(tile, ts) == Rect(TileX(tile) * ts, TileY(tile) * ts, ts, ts)

\* the solid tiles of the grid that the rect r overlaps
SolidHits(r, tm, ts) ==
    {k \in DOMAIN tm : tm[k].val.type \in PHYSICS_TILES /\ CollideRect(r, TileRect(tm[k].val, ts))}

Overlaps(e, tm, ts) == SolidHits(EntityRect(e), tm, ts) # {}

\* frame_movement of the last Update
FrameMovement == <<FAdd(args.movement[1], args.self.velocity[1]),
                   FAdd(args.movement[2], args.self.velocity[2])>>

Within(f, n) == FLeq(f, FInt(n)) /\ FLeq(FInt(-n), f)

\* the last Update took a body that overlapped no solid tile, is no larger
\* than a tile and moved at most one tile along each axis
ClearStart ==
    /\ op = "Update"
    /\ ~Overlaps(args.self, tilemap, tile_size)
    /\ args.self.size[1] <= tile_size /\ args.self.size[2] <= tile_size
    /\ Within(FrameMovement[1], tile_size) /\ Within(FrameMovement[2], tile_size)

\* C1, as stated: after Update the rect of the body overlaps no solid tile
\* of the grid, whatever the body's position, size and velocity were.
C1_NoOverlapAfterUpdate ==
    op = "Update" => ~Overlaps(ent, tilemap, tile_size)

\* C1, amended: a body that overlaps no solid tile before Update, is no
\* larger than a tile and has a frame movement of at most one tile along
\* each axis overlaps no solid tile after Update.
C1_NoOverlapFromClearStart ==
    ClearStart => ~Overlaps(ent, tilemap, tile_size)

\* an Update from a clear start that was stopped by a wall and by the floor
C1_Witness ==
    /\ ClearStart
    /\ ent.collisions.down /\ (ent.collisions.right \/ ent.collisions.left)

\* the rect of the body of the last Update after pos[0] += frame_movement[0]
MovedX ==
    Rect(FTrunc(FAdd(args.self.pos[1], FrameMovement[1])), FTrunc(args.self.pos[2]),
         args.self.size[1], args.self.size[2])

\* whenever pre holds and the body moved along x overlaps one solid tile:
\* moving right, its right edge ends at the left edge of the tile and
\* collisions['right'] is set; moving left, its left edge ends at the
\* right edge of the tile and collisions['left'] is set
ClampedToTheOnlyHit(pre) ==
    (pre /\ Cardinality(SolidHits(MovedX, tilemap, tile_size)) = 1) =>
        \A k \in SolidHits(MovedX, tilemap, tile_size) :
            /\ FLess(FZero, FrameMovement[1]) =>
                  /\ FTrunc(ent.pos[1]) + ent.size[1] = TileRect(tilemap[k].val, tile_size).x
                  /\ ent.collisions.right
            /\ FLess(FrameMovement[1], FZero) =>
                  /\ FTrunc(ent.pos[1])
                       = TileRect(tilemap[k].val, tile_size).x + tile_size
                  /\ ent.collisions.left

\* C2, as stated: in Update, when the body after its x translation overlaps
\* a single solid tile, then moving right its right edge ends equal to the
\* left edge of the tile with collisions['right'] set, and moving left its
\* left edge ends equal to the right edge of the tile with
\* collisions['left'] set.
C2_ClampX == ClampedToTheOnlyHit(op = "Update")

\* the last Update took a body that overlapped no solid tile, is no larger
\* than a tile and moved at most one tile along x
ClearStartX ==
    /\ op = "Update"
    /\ ~Overlaps(args.self, tilemap, tile_size)
    /\ args.self.size[1] <= tile_size /\ args.self.size[2] <= tile_size
    /\ Within(FrameMovement[1], tile_size)

\* C2, amended: the same for a body that overlaps no solid tile before
\* Update, is no larger than a tile and has a frame movement of at most one
\* tile along x.
C2_ClampXFromClearStart == ClampedToTheOnlyHit(ClearStartX)

\* a body as large as a tile that moved right into the one solid tile
\* beside it and was stopped at its left edge
C2_Witness ==
    /\ ClearStartX
    /\ Cardinality(SolidHits(MovedX, tilemap, tile_size)) = 1
    /\ FLess(FZero, FrameMovement[1])
    /\ args.self.size = <<16, 16>>
    /\ ent.collisions.right

\* C10: after Update velocity.y is 0 if collisions['down'] or
\* collisions['up'] is set, and min(velocity.y before + 0.1, 5) otherwise;
\* velocity.x is the one before the Update.
C10_VelocityAfterUpdate ==
    op = "Update" =>
        /\ ent.velocity[2] =
              IF ent.collisions.down \/ ent.collisions.up THEN FInt(0)
              ELSE FMin(FInt(5), FAdd(args.self.velocity[2], F0_1))
        /\ ent.velocity[1] = args.self.velocity[1]

\* an Update that stopped a falling body on the floor, and the body had a
\* horizontal velocity
C10_Witness ==
    /\ op = "Update" /\ ent.collisions.down
    /\ args.self.velocity[2] # FZero /\ args.self.velocity[1] # FZero

\* ------------------------------------------------------------------------
\* properties of velocity.y over a run
\* ------------------------------------------------------------------------

\* C8: in every state of a run of the player or of another body, from the
\* constructor on, through Update, Jump and wall slide, velocity.y is at
\* most 5.
C8_TerminalVelocity == FLeq(ent.velocity[2], FInt(5))

\* the player, moved by keys in its first frames, falls at velocity.y = 5
C8_Witness ==
    /\ ent.type = "player" /\ ent.velocity[2] = FInt(5) /\ calm = -1

\* C9, as stated: after 50 Updates in a row, from velocity.y = 0, with no
\* horizontal movement and no vertical collision, velocity.y is 5, and so it
\* is after every later one.
C9_Within50 == calm >= 50 => ent.velocity[2] = FInt(5)

\* C9, amended: after 51 such Updates velocity.y is 5, and so it is after
\* every later one; before the 51st it is below 5.
C9_Within51 ==
    /\ calm >= 51 => ent.velocity[2] = FInt(5)
    /\ (calm >= 0 /\ calm < 51) => FLess(ent.velocity[2], FInt(5))

\* the Update after the one that reached velocity.y = 5
C9_Witness == calm >= 52 /\ ent.velocity[2] = FInt(5)

\* ------------------------------------------------------------------------
\* further properties of PhysicsEntity.Update
\* ------------------------------------------------------------------------

\* no solid tile lies in the 3x3 cells around the position p
NoSolidAround(p) == Physics_Rects_Around(tilemap, tile_size, p) = << >>

\* the position of the body of the last Update moved by frame_movement
Translated ==
    <<FAdd(args.self.pos[1], FrameMovement[1]), FAdd(args.self.pos[2], FrameMovement[2])>>

\* the last Update was a pure translation
PureTranslation == ent.pos = Translated /\ ent.collisions = NoCollisions

\* C11, as stated: when no solid tile lies in the 3x3 cells around the body
\* (its position before the Update), the Update moves the body by movement
\* plus velocity on both axes and sets no collision flag.
C11_TranslationWhenClearBefore ==
    (op = "Update" /\ NoSolidAround(args.self.pos)) => PureTranslation

\* C11, amended: when no solid tile lies in the 3x3 cells around the body
\* after its x translation nor in those around it after its y translation
\* (the cells Update asks about), the Update moves the body by movement plus
\* velocity on both axes and sets no collision flag.
C11_TranslationWhenClearAround ==
    (/\ op = "Update"
     /\ NoSolidAround(<<Translated[1], args.self.pos[2]>>)
     /\ NoSolidAround(Translated)) => PureTranslation

\* an Update that moved a body along both axes with no solid tile around it
C11_Witness ==
    /\ op = "Update"
    /\ NoSolidAround(<<Translated[1], args.self.pos[2]>>) /\ NoSolidAround(Translated)
    /\ FrameMovement[1] # FZero /\ FrameMovement[2] # FZero
    /\ ent.pos # args.self.pos

\* the rectangle of the body of the last Update when it stands at p
RectAt(p) == EntityRect([args.self EXCEPT !.pos = p])

\* the solid rects around p that the body of the last Update overlaps at p
HitsAt(p) ==
    {k \in DOMAIN Physics_Rects_Around(tilemap, tile_size, p) :
        CollideRect(RectAt(p), Physics_Rects_Around(tilemap, tile_size, p)[k])}

\* the last Update found an overlap while moving along x, along y
DetectedX == HitsAt(<<Translated[1], args.self.pos[2]>>) # {}
DetectedY == HitsAt(<<ent.pos[1], Translated[2]>>) # {}

\* C12: the collision flags after an Update reflect that Update only: a flag
\* is true only if that Update moved towards that side and found an overlap
\* there, whatever the flags were before it.
C12_FlagsOfThisUpdateOnly ==
    op = "Update" =>
        /\ ent.collisions.right => (FLess(FZero, FrameMovement[1]) /\ DetectedX)
        /\ ent.collisions.left => (FLess(FrameMovement[1], FZero) /\ DetectedX)
        /\ ent.collisions.down => (FLess(FZero, FrameMovement[2]) /\ DetectedY)
        /\ ent.collisions.up => (FLess(FrameMovement[2], FZero) /\ DetectedY)

\* an Update that cleared a flag the Update before it had set
C12_Witness ==
    /\ op = "Update"
    /\ \E side \in {"up", "down", "left", "right"} :
          args.self.collisions[side] /\ ~ent.collisions[side]

\* the solid rects around p that the body of the last Update overlaps at p
HitRectsAt(p) ==
    {Physics_Rects_Around(tilemap, tile_size, p)[k] : k \in HitsAt(p)}

\* the last Update moved along both axes and its X pass clamped the body
ClampedDiagonal ==
    /\ op = "Update"
    /\ FrameMovement[1] # FZero /\ FrameMovement[2] # FZero
    /\ (ent.collisions.right \/ ent.collisions.left)

\* C13: the Y pass works from the x the X pass corrected: after an Update
\* that moved along both axes and clamped along x, no tile the X pass found
\* overlaps the body at the corrected x and the new y, and an up or down flag
\* is owed to another tile that does.
C13_XResolvedBeforeY ==
    ClampedDiagonal =>
        /\ \A r \in HitRectsAt(<<Translated[1], args.self.pos[2]>>) :
              ~CollideRect(RectAt(<<ent.pos[1], Translated[2]>>), r)
        /\ (ent.collisions.up \/ ent.collisions.down) =>
              HitRectsAt(<<ent.pos[1], Translated[2]>>)
                  \ HitRectsAt(<<Translated[1], args.self.pos[2]>>) # {}

\* a body that ran diagonally into a wall, was clamped along x and moved
\* freely along y in the same Update
C13_Witness ==
    /\ ClampedDiagonal
    /\ ~ent.collisions.up /\ ~ent.collisions.down
    /\ ent.pos[1] # Translated[1] /\ ent.pos[2] = Translated[2]

\* ------------------------------------------------------------------------
\* properties of AutoTile
\* ------------------------------------------------------------------------

\* the variant of every entry of a grid
VariantsOf(tm) == {<<tm[k].key, tm[k].val.variant>> : k \in DOMAIN tm}

\* C14: AutoTile is idempotent: a second AutoTile right after the first
\* leaves every variant as the first left it.
C14_Idempotent ==
    (op = "AutoTile" /\ steps >= 2) => VariantsOf(tilemap) = VariantsOf(args.tilemap)

\* AutoTile ran twice on a map, and the first run had changed a variant
C14_Witness ==
    /\ op = "AutoTile" /\ steps = 2
    /\ \E k \in DOMAIN tilemap : tilemap[k].val.variant \notin StartVariants

\* the entries of a grid in the order in which the cells stand in order
Reordered(tm, order) ==
    Only({[k \in DOMAIN held |->
              [key |-> Key(held[k][1], held[k][2]),
               val |-> DictGet(tm, Key(held[k][1], held[k][2]))]]
          : held \in {SelectSeq(order, LAMBDA c : DictHas(tm, Key(c[1], c[2])))}})

\* the grid with variant w in every entry but the one at key
OthersShow(tm, key, w) ==
    [k \in DOMAIN tm |-> IF tm[k].key = key THEN tm[k] ELSE [tm[k] EXCEPT !.val.variant = w]]

\* C15: the result of AutoTile does not depend on the order in which the
\* entries are visited: visited in any other order the grid gets the same
\* variant in every tile, and a tile gets the same variant whatever variants
\* the other tiles showed before.
C15_OrderIndependent ==
    op = "AutoTile" =>
        /\ \A order \in CellOrders :
              VariantsOf(AutoTile(Reordered(args.tilemap, order))) = VariantsOf(tilemap)
        /\ \A k \in DOMAIN tilemap : \A w \in {0, 5} :
              DictGet(AutoTile(OthersShow(args.tilemap, tilemap[k].key, w)),
                      tilemap[k].key).variant = tilemap[k].val.variant

\* AutoTile changed the variant of two tiles that are neighbours of the same
\* type, so each was visited before or after the other changed
C15_Witness ==
    /\ op = "AutoTile" /\ steps = 1
    /\ \E k, j \in DOMAIN tilemap :
          /\ k < j
          /\ tilemap[k].val.type = tilemap[j].val.type
          /\ Abs(TileX(tilemap[k].val) - TileX(tilemap[j].val))
               + Abs(TileY(tilemap[k].val) - TileY(tilemap[j].val)) = 1
          /\ tilemap[k].val.variant # args.tilemap[k].val.variant
          /\ tilemap[j].val.variant # args.tilemap[j].val.variant

\* the tile of the grid at cell (x, y) has the type of tile
Same(tile, x, y) ==
    \E j \in DOMAIN tilemap :
        /\ TileX(tilemap[j].val) = x /\ TileY(tilemap[j].val) = y
        /\ tilemap[j].val.type = tile.type

\* the sides on which a tile has an axis-adjacent neighbour of its type
Sides(tile) ==
    {side \in {"right", "left", "up", "down"} :
        \/ side = "right" /\ Same(tile, TileX(tile) + 1, TileY(tile))
        \/ side = "left" /\ Same(tile, TileX(tile) - 1, TileY(tile))
        \/ side = "up" /\ Same(tile, TileX(tile), TileY(tile) - 1)
        \/ side = "down" /\ Same(tile, TileX(tile), TileY(tile) + 1)}

\* the nine patterns of the table and their variants
Patterns ==
    {<<{"right", "down"}, 0>>, <<{"right", "down", "left"}, 1>>, <<{"left", "down"}, 2>>,
     <<{"left", "up", "down"}, 3>>, <<{"left", "up"}, 4>>, <<{"left", "up", "right"}, 5>>,
     <<{"right", "up"}, 6>>, <<{"right", "up", "down"}, 7>>,
     <<{"right", "down", "left", "up"}, 8>>}

\* C16: after AutoTile every grass or stone tile whose set of axis-adjacent
\* same-type neighbours is one of the nine table patterns has the variant the
\* table gives for it.
C16_TableVariants ==
    op = "AutoTile" =>
        \A k \in DOMAIN tilemap : \A s \in {Sides(tilemap[k].val)} : \A e \in Patterns :
            (tilemap[k].val.type \in {"grass", "stone"} /\ s = e[1])
                => tilemap[k].val.variant = e[2]

\* the L-shape (0,0), (1,0), (0,1) of one type beside a tile of the other
\* solid type: AutoTile gave variant 0 to the tile at (0,0)
C16_Witness ==
    /\ op = "AutoTile" /\ steps = 1
    /\ \E k \in DOMAIN tilemap :
          /\ tilemap[k].key = "0;0" /\ tilemap[k].val.type = "grass"
          /\ Sides(tilemap[k].val) = {"right", "down"}
          /\ DictHas(tilemap, "-1;0") /\ DictGet(tilemap, "-1;0").type = "stone"
          /\ tilemap[k].val.variant = 0 /\ args.tilemap[k].val.variant # 0

\* C17: AutoTile raises no error and leaves the variant of every tile whose
\* same-type neighbour set is not one of the nine table patterns as it was.
C17_OtherTilesKeepVariant ==
    op = "AutoTile" =>
        /\ err = NoError
        /\ \A k \in DOMAIN tilemap : \A s \in {Sides(tilemap[k].val)} :
              (\A e \in Patterns : s # e[1])
                  => tilemap[k].val.variant = args.tilemap[k].val.variant

\* AutoTile ran on a horizontal strip of three stone tiles with a grass tile
\* above it and all three stone tiles kept their variant
C17_Witness ==
    /\ op = "AutoTile" /\ steps = 1
    /\ \A key \in {"-1;0", "0;0", "1;0"} :
          /\ DictHas(tilemap, key)
          /\ DictGet(tilemap, key).type = "stone"
          /\ DictGet(tilemap, key).variant = DictGet(args.tilemap, key).variant
    /\ Sides(DictGet(tilemap, "0;0")) = {"left", "right"}
    /\ Sides(DictGet(tilemap, "-1;0")) = {"right"}
    /\ DictHas(tilemap, "0;-1") /\ DictGet(tilemap, "0;-1").type = "grass"

\* ------------------------------------------------------------------------
\* properties of Extract with keep=True and of the records it returns
\* ------------------------------------------------------------------------

\* the step is a call of Extract with keep=True
KeepStep == op' = "ExtractKeep" /\ steps' = steps + 1

\* the decorations and the grid tiles the call of the step matched, in the
\* order of the result
MatchedDecor == Matching(offgrid_tiles, args'.id_pairs)
MatchedGrid == Matching(GridTiles(tilemap), args'.id_pairs)

\* C18: a call Extract(id_pairs, keep=True) returns and leaves the grid and
\* the decoration sequence as they were: same keys, same records, same
\* order; the result holds one copy (same type and variant) of every
\* matching record, the decorations first.
C18_KeepLeavesTilemap ==
    [][KeepStep =>
          /\ err' = NoError
          /\ tilemap' = tilemap /\ offgrid_tiles' = offgrid_tiles
          /\ [k \in DOMAIN matches' |-> IdOf(matches'[k])]
               = [k \in DOMAIN (MatchedDecor \o MatchedGrid) |->
                     IdOf((MatchedDecor \o MatchedGrid)[k])]]_vars

\* Extract with keep=True returned the copy of a decoration; the decoration
\* and the tiles of the grid are still held
C18_Witness ==
    /\ op = "ExtractKeep" /\ err = NoError
    /\ \E k \in DOMAIN matches : \E j \in DOMAIN offgrid_tiles :
          matches[k].shared /\ IdOf(matches[k]) = IdOf(offgrid_tiles[j])
    /\ Len(tilemap) >= 2

\* C19: in the result of an Extract that returns, the copy of a grid tile
\* has pos = (gridX * tile_size, gridY * tile_size) while the grid entry
\* keeps its grid coordinate, and the copy of a decoration has the pos of
\* the decoration.
C19_ResultPositions ==
    [][((op' \in {"Extract", "ExtractKeep"}) /\ steps' = steps + 1 /\ err' = NoError) =>
          /\ Len(matches') = Len(MatchedDecor) + Len(MatchedGrid)
          /\ \A k \in DOMAIN MatchedDecor : matches'[k].pos = MatchedDecor[k].pos
          /\ \A k \in DOMAIN MatchedGrid :
                /\ matches'[Len(MatchedDecor) + k].pos
                     = <<PyInt(TileX(MatchedGrid[k]) * tile_size),
                         PyInt(TileY(MatchedGrid[k]) * tile_size)>>
                /\ \E j \in DOMAIN tilemap' : tilemap'[j].val = MatchedGrid[k]]_vars

\* Extract returned the copy of a grid tile whose pixel position is not its
\* grid coordinate
C19_Witness ==
    /\ op = "ExtractKeep" /\ err = NoError
    /\ \E k \in DOMAIN matches : \E j \in DOMAIN tilemap :
          /\ ~matches[k].shared
          /\ IdOf(matches[k]) = IdOf(tilemap[j].val)
          /\ matches[k].pos = <<PyInt(TileX(tilemap[j].val) * tile_size),
                                PyInt(TileY(tilemap[j].val) * tile_size)>>
          /\ matches[k].pos # tilemap[j].val.pos

\* C20: the records Extract(id_pairs, keep=True) returns are copies: a write
\* into a returned record, the elements of its pos included, changes no
\* record of the grid and no decoration.
C20_ReturnedRecordsAreCopies ==
    [][op' = "Mutate" => (tilemap' = tilemap /\ offgrid_tiles' = offgrid_tiles)]_vars

\* ------------------------------------------------------------------------
\* properties of the grid and of the spatial queries
\* ------------------------------------------------------------------------

\* C21: in every state the editor reaches by placement, removal and AutoTile
\* and the game reaches by Extract, the key of each grid entry is the string
\* '<x>;<y>' of the two ints of the entry's own pos.
C21_KeyIsPos ==
    \A k \in DOMAIN tilemap :
        /\ tilemap[k].val.pos[1].int /\ tilemap[k].val.pos[2].int
        /\ tilemap[k].key = Key(TileX(tilemap[k].val), TileY(tilemap[k].val))

\* the editor ran AutoTile on a grid it had placed a tile into, at a cell
\* whose x and y differ
C21_Witness ==
    /\ op = "AutoTile" /\ prog = "editor"
    /\ \E k \in DOMAIN tilemap :
          /\ tilemap[k].val.seq = "tuple"
          /\ TileX(tilemap[k].val) # TileY(tilemap[k].val)

\* the float f lies in the cell c of the axis: c * tile_size <= f < (c + 1) * tile_size
InCell(f, c) == FLeq(FInt(c * tile_size), f) /\ FLess(f, FInt((c + 1) * tile_size))

\* the grid records at the nine cells around the cell that holds the point p
RecordsAround(p) ==
    {tilemap[k].val : k \in
        {j \in DOMAIN tilemap :
            \E dx \in {-1, 0, 1}, dy \in {-1, 0, 1} :
                /\ InCell(p[1], TileX(tilemap[j].val) - dx)
                /\ InCell(p[2], TileY(tilemap[j].val) - dy)}}

\* C22: Tiles_Around(pos) returns the grid records at the nine cells around
\* the cell (floor(pos.x / tile_size), floor(pos.y / tile_size)), the floor
\* taken toward minus infinity, each of them once and nothing else.
C22_TilesAround ==
    op = "Query" =>
        /\ {query.tiles[k] : k \in DOMAIN query.tiles} = RecordsAround(query.at)
        /\ Len(query.tiles) = Cardinality(RecordsAround(query.at))
        /\ Len(query.tiles) <= 9

\* a query at a negative, fractional x that found records on both sides of
\* cell 0 and left a record of the grid out
C22_Witness ==
    /\ op = "Query"
    /\ FLess(query.at[1], FZero) /\ ~FIsInt(query.at[1])
    /\ \E k, j \in DOMAIN query.tiles :
          TileX(query.tiles[k]) < 0 /\ TileX(query.tiles[j]) >= 0
    /\ Len(query.tiles) < Len(tilemap)

\* C23: Physics_Rects_Around(pos) returns, in the order of Tiles_Around(pos),
\* one rectangle (gridX * tile_size, gridY * tile_size, tile_size, tile_size)
\* for each grass or stone record and none for a record of another type.
C23_PhysicsRects ==
    op = "Query" =>
        query.rects =
            [k \in DOMAIN SelectSeq(query.tiles, LAMBDA t : t.type \in {"grass", "stone"}) |->
                [x |-> TileX(SelectSeq(query.tiles,
                                 LAMBDA t : t.type \in {"grass", "stone"})[k]) * tile_size,
                 y |-> TileY(SelectSeq(query.tiles,
                                 LAMBDA t : t.type \in {"grass", "stone"})[k]) * tile_size,
                 w |-> tile_size, h |-> tile_size]]

\* a query that found a solid record and a record of another type
C23_Witness ==
    /\ op = "Query" /\ query.rects # << >>
    /\ \E k \in DOMAIN query.tiles : query.tiles[k].type \in {"decor", "large_decor"}

\* C24: Solid_Check(pos) returns the grid record at the cell
\* (floor(pos.x / tile_size), floor(pos.y / tile_size)) when that record is
\* grass or stone, and none when the cell is empty or holds another record.
C24_SolidCheck ==
    op = "Query" =>
        {query.solid[k] : k \in DOMAIN query.solid} =
            {tilemap[k].val : k \in
                {j \in DOMAIN tilemap :
                    /\ InCell(query.at[1], TileX(tilemap[j].val))
                    /\ InCell(query.at[2], TileY(tilemap[j].val))
                    /\ tilemap[j].val.type \in {"grass", "stone"}}}

\* a query at a cell that holds a record that is not solid
C24_Witness ==
    /\ op = "Query" /\ query.solid = << >>
    /\ \E j \in DOMAIN tilemap :
          /\ InCell(query.at[1], TileX(tilemap[j].val))
          /\ InCell(query.at[2], TileY(tilemap[j].val))

\* ------------------------------------------------------------------------
\* properties of Load_Level and of the game loop
\* ------------------------------------------------------------------------

\* what Tilemap.Load reads from the file of the level
Loaded == Load(disk[LevelPath(0)], << >>, DefaultTileSize, << >>)

SpawnerIds == {<<"spawners", 0>>, <<"spawners", 1>>}

\* the pixel positions of the spawners of variant v in the file of the level:
\* the decorations, then the grid tiles
SpawnersAt(v) ==
    [k \in DOMAIN Matching(Loaded.offgrid, {<<"spawners", v>>}) |->
        <<Matching(Loaded.offgrid, {<<"spawners", v>>})[k].pos[1].f,
          Matching(Loaded.offgrid, {<<"spawners", v>>})[k].pos[2].f>>]
    \o [k \in DOMAIN Matching(GridTiles(Loaded.tilemap), {<<"spawners", v>>}) |->
        <<FInt(TileX(Matching(GridTiles(Loaded.tilemap), {<<"spawners", v>>})[k])
                 * Loaded.tile_size),
          FInt(TileY(Matching(GridTiles(Loaded.tilemap), {<<"spawners", v>>})[k])
                 * Loaded.tile_size)>>]

\* C25: after a Load_Level that returns, no spawner of variant 0 or 1 is left
\* on the grid or among the decorations, every other tile of the file is
\* still there, the player stands at the pixel position of the variant-0
\* spawner, and game.enemies holds one enemy per variant-1 spawner, at that
\* spawner's pixel position.
C25_LoadLevelSpawns ==
    (op = "Load_Level" /\ err = NoError) =>
        /\ Matching(GridTiles(tilemap), SpawnerIds) = << >>
        /\ Matching(offgrid_tiles, SpawnerIds) = << >>
        /\ GridTiles(tilemap) = Others(GridTiles(Loaded.tilemap), SpawnerIds)
        /\ offgrid_tiles = Others(Loaded.offgrid, SpawnerIds)
        /\ SpawnersAt(0) # << >> => ent.pos = SpawnersAt(0)[Len(SpawnersAt(0))]
        /\ [k \in DOMAIN game.enemies |-> game.enemies[k].pos] = SpawnersAt(1)
        /\ \A k \in DOMAIN game.enemies : game.enemies[k].type = "enemy"

\* Load_Level returned on a level with a player spawner, two enemy spawners
\* and a tree: the tree is still a decoration
C25_Witness ==
    /\ op = "Load_Level" /\ err = NoError
    /\ Len(SpawnersAt(0)) = 1 /\ Len(game.enemies) = 2
    /\ \E k \in DOMAIN offgrid_tiles : IdOf(offgrid_tiles[k]) = <<"large_decor", 2>>
    /\ game.leaf_spawners # << >>

\* C26: once the player is dead, Load_Level is called within 40 further
\* frames, with the level index the game had when the player died, and
\* only that call ends the death
C26_DeathReloadsLevel ==
    prog = "play" /\ op = "Frame" =>
        /\ args.waited <= 40
        /\ args.dead # 0 /\ (game.dead = 0 \/ args.loaded # << >>) =>
              /\ args.loaded # << >>
              /\ \A k \in DOMAIN args.loaded : args.loaded[k] = args.was

\* C27: over a frame the level index never goes down and never passes the
\* number of map files less one; it goes up by one, and only in a frame
\* that starts with no enemy and takes the transition counter past 30; on
\* the last level it stays
C27_LevelIndex ==
    op = "Frame" =>
        /\ args.level <= game.level
        /\ game.level <= MapCount(disk) - 1
        /\ game.level # args.level =>
              /\ game.level = args.level + 1
              /\ args.enemies = 0
              /\ args.transition + 1 > 30
        /\ args.level = MapCount(disk) - 1 => game.level = args.level

\* a frame took the game from the first level to the second
C27_Witness ==
    /\ op = "Frame" /\ prog = "play"
    /\ args.level = 0 /\ game.level = 1 /\ args.loaded = <<1>>

\* C28: the key x changes the dash counter only when it is 0, to -60 for a
\* player facing left and to 60 otherwise; a Player.Update moves the
\* counter one step toward 0 and never across it; the counter stays within
\* -60..60, and a Dash that has an effect comes at least 60 Player.Update
\* calls after the one before
C28_DashCounter ==
    op = "Frame" /\ prog = "play" =>
        /\ args.key = "x" /\ args.dashing # 0 => ent.dashing = args.dashing /\ ~args.dashed
        /\ args.key = "x" /\ args.dashing = 0 =>
              ent.dashing = (IF ent.flip THEN -60 ELSE 60) /\ args.dashed
        /\ args.key # "x" => ent.dashing = args.dashing
        /\ args.updated /\ args.start > 0 => args.dashing = args.start - 1
        /\ args.updated /\ args.start < 0 => args.dashing = args.start + 1
        /\ args.updated /\ args.start = 0 => args.dashing = 0
        /\ ~args.updated => args.dashing = args.start
        /\ ent.dashing \in -60..60
        /\ args.dashed /\ args.gap >= 0 => args.gap >= 60

\* a Dash takes effect exactly 60 Player.Update calls after the one before
C28_Witness ==
    /\ op = "Frame" /\ prog = "play"
    /\ args.dashed /\ args.gap = 60 /\ ent.dashing \in {-60, 60}

\* C29: when a dash ends (a Player.Update takes the dash counter to 0),
\* the Player.Update calls of the dash have made two bursts of 20
\* particles, one with the counter at magnitude 60 and one at 50
C29_TwoBursts == op = "Frame" /\ args.ended # -1 => args.ended = 2

\* C30: in a frame whose projectile loop runs with the dash counter at
\* magnitude 50 or more, the player-hit branch is never taken: no
\* projectile raises dead or is removed for having met the player
C30_NoHitWhileDashing ==
    op = "Frame" /\ Abs(args.dashing) >= 50 => args.hits = 0

\* a projectile inside the rectangle of the dashing player stays in the list
C30_Witness ==
    /\ op = "Frame" /\ prog = "play"
    /\ Abs(args.dashing) >= 50 /\ args.spared > 0 /\ args.hits = 0
    /\ \E k \in DOMAIN game.projectiles : StruckAlways(game.projectiles[k], ent)

\* C31: the enemy list after a frame holds, in their order, the enemies the
\* frame updated less those whose Update returned True, and an Update
\* returns True only with the dash counter of the player at magnitude 50
\* or more and the rectangle of the enemy, after its physics, over the
\* rectangle of the player; a frame without Load_Level updates the
\* enemies the list held before it
C31_EnemyRemoval ==
    op = "Frame" /\ prog = "play" =>
        /\ \A k \in DOMAIN args.calls :
              args.calls[k].kill =>
                  /\ Abs(args.calls[k].player.dashing) >= 50
                  /\ CollideRect(EntityRect(args.calls[k].after),
                                 EntityRect(args.calls[k].player))
        /\ game.enemies =
              [j \in DOMAIN SelectSeq(args.calls, LAMBDA c : ~c.kill) |->
                  SelectSeq(args.calls, LAMBDA c : ~c.kill)[j].after]
        /\ args.loaded = << >> => Len(args.calls) = args.enemies

\* a frame removed the enemy the dashing player ran into
C31_Witness ==
    /\ op = "Frame" /\ prog = "play"
    /\ args.loaded = << >> /\ args.enemies = 1 /\ game.enemies = << >>
    /\ Len(args.calls) = 1 /\ args.calls[1].kill

C33_WallJump ==
    op = "Jump" =>
        \A b \in {args.self} :
        \A right \in {b.collisions.right} :
        \A toward \in {b.wall_slide /\ IF right THEN FLess(FZero, b.last_movement[1])
                                          ELSE FLess(b.last_movement[1], FZero)} :
            /\ b.wall_slide => (b.collisions.right \/ b.collisions.left) /\ b.flip = ~right
            /\ Jump(b).ret = toward
            /\ toward => /\ ent.velocity = <<IF right THEN FNeg(F4_5) ELSE F4_5, FInt(-2)>>
                         /\ ent.jumps = Max(0, b.jumps - 1)
            /\ ~toward => ent.velocity[1] = b.velocity[1]

\* a wall jump off the wall on the right with no jump left
C33_Witness ==
    /\ op = "Jump" /\ args.self.wall_slide /\ args.self.collisions.right
    /\ args.self.jumps = 0 /\ FLess(FZero, args.self.last_movement[1])
    /\ ent.velocity = <<FNeg(F4_5), FInt(-2)>>
\* C37: the player's jumps counter is 0, 1 or 2 in every state; a Jump
\* leaves it at max(0, jumps - 1) or, when it is no wall jump and no jump
\* is left, leaves jumps, velocity and air_time as they were; the counter
\* grows only in a Player.Update that reports a collision down, to 2.
C37_JumpsCounter ==
    ent.type = "player" =>
        /\ ent.jumps \in 0..2
        /\ op = "Jump" =>
              /\ ent.jumps = Max(0, args.self.jumps - 1)
              /\ args.self.jumps = 0 /\ ~Jump(args.self).ret =>
                    /\ ent.velocity = args.self.velocity
                    /\ ent.air_time = args.self.air_time
        /\ op \in {"Jump", "Dash", "PlayerUpdate"} /\ ent.jumps > args.self.jumps =>
              op = "PlayerUpdate" /\ ent.collisions.down /\ ent.jumps = 2
        /\ op = "PlayerUpdate" /\ ent.jumps # args.self.jumps => ent.collisions.down

\* a Jump in the air with no jump left that is no wall jump: the player is
\* as before
C37_Witness ==
    /\ op = "Jump" /\ ent.type = "player" /\ args.self.jumps = 0
    /\ ~Jump(args.self).ret /\ ~args.self.collisions.down
    /\ ent = args.self
\* C35: an Animation that started at frame 0 keeps its frame counter in
\* 0 .. image_duration * len(images) - 1 and Image() finds its image; an
\* Update of a looping animation adds 1 and wraps from the last frame to 0
\* without setting done, an Update of a non-looping one adds 1 up to the
\* last frame, stays there and sets done there; done is never cleared.
C35_FrameInRange ==
    /\ err = NoError
    /\ \A r \in {game.assets[key] : key \in DOMAIN game.assets}
               \cup {game.player.animation, game.enemy.animation}
               \cup {game.particles[k].animation :
                        k \in {j \in DOMAIN game.particles : game.particles[j].start = 0}} :
          \A a \in {game.heap[r]} :
             /\ Len(a.images) >= 1
             /\ a.frame \in 0..(a.image_duration * Len(a.images) - 1)
             /\ a.frame \div a.image_duration + 1 \in DOMAIN a.images
    /\ op \in {"Enemy.Update", "Player.Update", "Particle.Update"} =>
          \A b \in {args.before} : \A u \in {args.updated} :
          \A last \in {b.image_duration * Len(b.images) - 1} :
             /\ b.done => u.done
             /\ b.loop => /\ u.frame = IF b.frame = last THEN 0 ELSE b.frame + 1
                          /\ ~u.done
             /\ ~b.loop /\ b.frame <= last =>
                   /\ u.frame = IF b.frame = last THEN last ELSE b.frame + 1
                   /\ u.done = (u.frame = last)

\* the run animation of the player, two images of 4 frames, wraps from
\* frame 7 to frame 0 and shows the first image again
C35_Witness ==
    /\ op = "Player.Update" /\ args.was = "run" /\ args.action = "run"
    /\ Len(args.before.images) = 2 /\ args.before.frame = 7
    /\ args.updated.frame = 0 /\ args.image = 1
\* C36: the Animations of the assets, of the player, of the enemy and of
\* every particle are objects of their own; the assets stay at frame 0 and
\* not done; an Update of an entity or particle and the making of a
\* particle change no Animation but the one of that entity or particle; and
\* Set_Action with the action the entity has keeps the running animation,
\* with another action it starts a new one at frame 0 from the asset of
\* that action.
C36_OwnAnimation ==
    /\ Cardinality(DOMAIN game.heap) = Len(AssetOrder) + 2 + Len(game.particles)
    /\ \A key \in DOMAIN game.assets :
          game.heap[game.assets[key]].frame = 0 /\ ~game.heap[game.assets[key]].done
    /\ op \in {"Enemy.Update", "Player.Update", "Particle.Update", "Particle"} =>
          \A r \in (DOMAIN args.heap \cap DOMAIN game.heap) \ {args.self} :
             game.heap[r] = args.heap[r]
    /\ op \in {"Enemy.Update", "Player.Update"} =>
          \A e \in {IF op = "Enemy.Update" THEN game.enemy ELSE game.player} :
             /\ e.action = args.action
             /\ args.action = args.was =>
                   e.animation = args.self /\ game.heap[e.animation] = args.updated
             /\ args.action # args.was =>
                   /\ e.animation \notin DOMAIN args.heap
                   /\ game.heap[e.animation] =
                         [game.heap[game.assets[e.type \o "/" \o e.action]]
                             EXCEPT !.frame = 0, !.done = FALSE]

\* two particles of one type: the Update of the first moves its counter and
\* leaves the counter of the second and the asset where they were
C36_Witness ==
    /\ op = "Particle.Update" /\ Len(game.particles) = 2
    /\ game.particles[1].type = game.particles[2].type
    /\ args.self = game.particles[1].animation
    /\ game.heap[args.self].frame = args.heap[args.self].frame + 1
    /\ game.heap[game.particles[2].animation] = args.heap[game.particles[2].animation]
    /\ game.heap[game.particles[2].animation].frame # game.heap[args.self].frame
    /\ game.heap[game.assets["particle/" \o game.particles[1].type]].frame = 0

====
